---- MODULE Spec2Model ----
(***************************************************************************)
(* JeefHS: the local SQLite buffer and its background synchronisation to   *)
(* the remote Postgres store (src/database_interface.py), driven by the    *)
(* polling thread of src/jeefHS.py.                                        *)
(*                                                                         *)
(* Two threads act on the buffer: the polling thread (producer), which     *)
(* appends rows through log_environment / log_security, and the            *)
(* DBSyncWorker thread, which runs _sync_loop.                             *)
(***************************************************************************)
EXTENDS Integers, Sequences, FiniteSets, TLC

(***************************************************************************)
(* Program constants.                                                      *)
(***************************************************************************)
\* LIMIT 50 of the two SELECT statements.
BatchSize == 50

\* self.device_id
device_id == "pi_01"

\* The two tables of the local database (CREATE_ENV_TABLE, CREATE_SEC_TABLE).
Kinds == {"measurements", "security_events"}

(***************************************************************************)
(* Bounds of the model.                                                    *)
(***************************************************************************)
\* ModeManager calls (set_mode, register_callback) made during a run.
MaxModeCalls == 3

\* set_device_state calls made during a run.
MaxDevCalls == 4

\* pulse_buzzer calls made during a run.
MaxPulseCalls == 3

\* _start_party_mode / _stop_party_mode calls made during a run.
MaxPartyCmds == 3

\* set_device_state calls the MQTT thread makes while party mode is modelled.
MaxRemoteCalls == 1

\* Iterations of the polling loop in a run.
MaxTicks == 2

\* Messages the MQTT client delivers in a run.
MaxMessages == 2

\* Rows the polling thread appends during a run, both tables together.
MaxAppends == 1

\* Faults (local store errors, remote errors) injected during a run.
MaxFailures == 1

\* Largest number of unsynced rows found in a table at start-up.
MaxBacklog == 120

\* Calendar dates the log is written on.
MaxDays == 2

\* Security samples pulled.
MaxSamples == 2

\* Firings of the security-summary timer.
MaxSummaries == 2

\* flush_interval of JeefHSApp (line 39), in ticks of the polling loop.
FlushInterval == 2

\* Contents of (measurements, security_events) found in the local database
\* file at construction: the file persists across runs (CREATE TABLE IF NOT
\* EXISTS), so a device that was offline starts with a backlog.
InitialBacklogs ==
    { <<0, 0>>, <<BatchSize, BatchSize + 1>>, <<MaxBacklog, 0>> }

VARIABLES
    running,        \* DatabaseInterface.running
    configured,     \* pg_conn_str is set and psycopg2 was imported
    local,          \* local[k]: rows of table k of jeefhs_local.db, by id
    remote,         \* remote[k][id]: remote rows of kind k pushed from local row id
    prodPc,         \* position of the polling thread in its tick
    sample,         \* timestamp of the sample the polling thread holds
    pending,        \* the producer's INSERT that is not committed yet
    lastAppend,     \* outcome of the last log_environment / log_security call
    syncPc,         \* position of the DBSyncWorker thread
    syncing,        \* table the running _sync_* call works on
    rows,           \* rows fetched by the running _sync_* call
    pgTxn,          \* rows inserted in the open remote transaction
    ids_to_mark,    \* ids_to_mark of the running _sync_* call
    exc,            \* exception in flight in the sync thread
    failures,       \* faults injected so far
    passes,         \* passes[k]: completed _sync_k calls, counted up to PassesNeeded(k)
    unmarked,       \* unmarked[k]: batches committed remotely whose local mark failed
    failedBatch,    \* failedBatch[k]: ids of a batch of k whose push failed, until the next push on k
    backlog0,       \* backlog0[k]: rows table k held at construction
    closePc         \* position of the main thread in DatabaseInterface.close()

\* ModeManager (src/mode_manager.py) and the threads that call it.
VARIABLES
    mode,           \* ModeManager._mode
    callbacks,      \* ModeManager._callbacks
    lock,           \* owner of ModeManager._lock, or "free"
    mmPc,           \* mmPc[t]: position of thread t in a ModeManager call
    mmArg,          \* mmArg[t]: argument of the call thread t is in
    candidate,      \* candidate[t]: local "candidate" of set_mode
    toCall,         \* toCall[t]: local "callbacks" of set_mode, the copy of the list
    done,           \* done[t]: entries of toCall[t] the loop of set_mode has passed
    mmResult,       \* mmResult[t]: what the last call of thread t returned or raised
    invoked,        \* invoked[t]: listener invocations of the set_mode call of t, in order
    commits,        \* number of mode changes committed so far
    commitOf,       \* commitOf[t]: number of the commit of the set_mode call of t
    got,            \* got[t]: what the last get_mode call of thread t returned
    mmCalls         \* ModeManager calls started so far

\* device_control_module (src/device_control_module.py) and its callers.
VARIABLES
    outputs,        \* names held in device_control_module._outputs
    driver,         \* driver[name]: value last written to the output of name
    states,         \* device_control_module._states
    devPc,          \* devPc[t]: position of thread t in set_device_state
    devArg,         \* devArg[t]: arguments (device_name, on) of the call of t
    device,         \* device[t]: local "device" of set_device_state
    seen,           \* seen[t]: what the call of t read from the cache
    devResult,      \* devResult[t]: what the last call of t returned
    devWrites,      \* devWrites[t]: driver and cache writes of the call of t
    logEntries,     \* log entries _handle_remote_device_state wrote
    devCalls        \* device calls started so far

\* pulse_buzzer of device_control_module and the threads that call it.
VARIABLES
    pulsePc,        \* pulsePc[t]: position of thread t in pulse_buzzer
    pulseArg,       \* pulseArg[t]: the duration argument of the call of t
    held,           \* held[t]: the time the call of t slept at line 207
    pulseResult,    \* pulseResult[t]: how the last pulse_buzzer call of t ended
    pulseCalls      \* pulse_buzzer calls started so far

\* Party mode of JeefHSApp (src/jeefHS.py): the worker thread and the thread
\* that calls _start_party_mode / _stop_party_mode.
VARIABLES
    partyLock,      \* owner of JeefHSApp._party_lock, or "free"
    partyThread,    \* self._party_thread is set
    alive,          \* PartyMode threads that were started and have not ended
    stopEvent,      \* self._party_stop_event is set
    workerPc,       \* position of the PartyMode thread in _party_worker
    frame,          \* index in seq of the frame the worker is at
    led,            \* index of the LED the worker is at, in its for loops
    partyPc,        \* position of the MQTT thread in _start/_stop_party_mode
    partyResult,    \* how the last _start/_stop_party_mode call ended
    partyCmds,      \* _start/_stop_party_mode calls started so far
    joinTimedOut    \* a join with a timeout has returned with its thread alive

\* MQTT_communicator.on_mqtt_message (src/MQTT_communicator.py).
VARIABLES
    mqPc,           \* position of the MQTT thread in on_mqtt_message
    msg,            \* the message being handled: feed key and payload
    routed,         \* the handler calls made for the message, in order
    mqResult,       \* how the last on_mqtt_message call ended
    delivered       \* messages delivered so far

\* JeefHSApp.start and data_collection_loop (src/jeefHS.py).
VARIABLES
    lifePc,         \* position of the main thread in start()
    appRunning,     \* JeefHSApp.running
    loopPc,         \* position of the JeefHSLoop thread in data_collection_loop
    logOpen,        \* self._log_handle is an open file
    connected,      \* the MQTT client's network loop is running
    ticks           \* iterations of the polling loop started so far

\* The daily log file of JeefHSApp (src/jeefHS.py): _ensure_log_file,
\* _write_log_entry, _flush_log and the threads that call them.
VARIABLES
    logLock,        \* owner of JeefHSApp._log_lock, or "free"
    logHandle,      \* the object self._log_handle refers to: "none", "open", "closed"
    logFile,        \* date of the file that object was opened on, 0 for None
    logDate,        \* self._log_date, 0 for None
    opened,         \* file objects that are open
    needsFlush,     \* self._needs_flush
    wPc,            \* wPc[t]: position of thread t in _write_log_entry
    wStamp,         \* wStamp[t]: calendar date of the timestamp of the entry of t
    wSec,           \* wSec[t]: the dict "sec" of the call of t
    wEvent,         \* wEvent[t]: event_type of the call of t
    wTag,           \* wTag[t]: the call that the last _write_log_entry of t served
    lastEntry,      \* lastEntry[t]: the entry the last call of t wrote
    written,        \* entries written so far
    today,          \* the calendar date
    sinceFlush,     \* time.time() - self._last_flush_time, in ticks, up to FlushInterval
    pendingAge      \* ticks since the oldest entry not yet synced to disk was
                    \* written, up to MaxAge; -1 when every entry is synced

\* collect_security_data of JeefHSApp (src/jeefHS.py), get_security_data
\* of security_module (src/security_module.py) and _on_mode_change.
VARIABLES
    secPc,          \* position of the polling thread in collect_security_data
    motionDetected, \* motion_detected of the sample in progress
    sampleMode,     \* "mode" of get_security_data
    buzzerTriggered,\* buzzer_triggered of get_security_data
    pulseMark,      \* pulse_buzzer calls started before the sample
    dictMode,       \* dictMode[d]: the value of key 'mode' in dict d
    lastSec,        \* the dict self.last_security_data refers to
    secData,        \* the dict sec_data refers to
    samples,        \* samples pulled so far
    motionCount,    \* security_counts['motion']
    detections,     \* motion-positive samples so far
    reported,       \* sum of the motion counts published so far
    summaries,      \* summary timer firings so far
    enqueued,       \* records the samples appended through db.log_security
    sampleLogs,     \* log entries the samples wrote
    counted,        \* increments of security_counts['motion'] so far
    onPc,           \* position of the MQTT thread in _on_mode_change
    served          \* the commit that the last _on_mode_change call served

dbVars == << running, configured, local, remote, prodPc, sample, pending,
             lastAppend, syncPc, syncing, rows, pgTxn, ids_to_mark, exc, failures,
             passes, unmarked, failedBatch, backlog0, closePc >>

modeVars == << mode, callbacks, lock, mmPc, mmArg, candidate, toCall, done,
               mmResult, invoked, commits, commitOf, got, mmCalls >>

deviceVars == << outputs, driver, states, devPc, devArg, device, seen,
                 devResult, devWrites, logEntries, devCalls >>

pulseVars == << pulsePc, pulseArg, held, pulseResult, pulseCalls >>

partyVars == << partyLock, partyThread, alive, stopEvent, workerPc, frame, led,
               partyPc, partyResult, partyCmds, joinTimedOut >>

routeVars == << mqPc, msg, routed, mqResult, delivered >>

logVars == << logLock, logHandle, logFile, logDate, opened, needsFlush, wPc,
             wStamp, wSec, wEvent, wTag, lastEntry, written, today,
             sinceFlush, pendingAge >>

sampleVars == << secPc, motionDetected, sampleMode, buzzerTriggered, pulseMark,
                dictMode, lastSec, secData, samples, motionCount, detections,
                reported, summaries, enqueued, sampleLogs, counted, onPc,
                served >>

lifeVars == << lifePc, appRunning, loopPc, logOpen, connected, ticks >>

\* The lifecycle but the log handle, which _write_log_entry opens.
lifeButLog == << lifePc, appRunning, loopPc, connected, ticks >>

\* The state of the orchestrator around ModeManager and set_device_state.
extVars == << pulseVars, partyVars, routeVars, lifeVars >>

\* The state outside the local buffer and its sync task.
appVars == << modeVars, deviceVars, extVars, logVars, sampleVars >>

vars == << dbVars, appVars >>

prodVars == << prodPc, sample, pending, lastAppend >>
syncVars == << syncPc, syncing, rows, pgTxn, ids_to_mark, exc >>
ghostVars == << passes, unmarked, failedBatch, backlog0 >>

NoRow == [kind |-> "none", ts |-> 0]

(***************************************************************************)
(* Helpers.                                                                *)
(***************************************************************************)
Min(a, b) == IF a <= b THEN a ELSE b

Range(s) == { s[i] : i \in DOMAIN s }

Ids(rs) == { rs[i].id : i \in DOMAIN rs }

Unsynced(table) == { i \in DOMAIN table : table[i].synced = 0 }

\* Largest id a local row can get in a run.
MaxId == MaxBacklog + MaxAppends + 1

\* A table of n rows none of which is synced.
Backlog(n) == [ i \in 1..n |-> [id |-> i, ts |-> 1, synced |-> 0] ]

(***************************************************************************)
(* SQL statements.                                                         *)
(***************************************************************************)
\* INSERT INTO <table> (..., synced) VALUES (..., 0): AUTOINCREMENT gives the
\* row the id after the largest id the table ever held.
InsertRow(table, ts) ==
    Append(table, [id |-> Len(table) + 1, ts |-> ts, synced |-> 0])

IsUnsynced(row) == row.synced = 0

\* SELECT ... FROM <table> WHERE synced=0 LIMIT n: a scan of the table in
\* rowid order (the table has no index but its INTEGER PRIMARY KEY) that
\* keeps the rows with synced=0 and stops after n of them.
SelectLimit(table, n) ==
    LET matching == SelectSeq(table, IsUnsynced)
    IN  SubSeq(matching, 1, Min(n, Len(matching)))

\* Variant: ORDER BY id DESC, the newest unsynced rows first.
SelectNewestFirst(table) ==
    LET matching == SelectSeq(table, IsUnsynced)
        n == Min(BatchSize, Len(matching))
    IN  [ i \in 1..n |-> matching[Len(matching) + 1 - i] ]

\* Variant: LIMIT one short of the batch size.
SelectShort(table) == SelectLimit(table, BatchSize - 1)

SelectUnsynced(table) == SelectLimit(table, BatchSize)

\* Variant: a dirty read, the uncommitted INSERT is visible.
DirtyView(table, pend) ==
    IF pend.kind = "none" THEN table
    ELSE Append(table, [id |-> Len(table) + 1, ts |-> pend.ts, synced |-> 0])

CommittedView(table, pend) == table

\* Variant: the UPDATE without its WHERE clause.
UpdateAll(table, ids) == [ i \in DOMAIN table |-> [table[i] EXCEPT !.synced = 1] ]

\* Variant: the pushed rows are deleted from the buffer instead of flagged.
DeleteSynced(table, ids) == SelectSeq(table, LAMBDA r : r.id \notin ids)

\* UPDATE <table> SET synced=1 WHERE id IN (ids)
UpdateSynced(table, ids) ==
    [ i \in DOMAIN table |->
        IF table[i].id \in ids THEN [table[i] EXCEPT !.synced = 1] ELSE table[i] ]

\* The remote INSERT of one fetched row: the payload tagged with device_id.
RemoteRow(row) == [ts |-> row.ts, device_id |-> device_id]

\* pg_conn.commit(): the rows of the open transaction become remote rows.
CommitRows(store, txn) ==
    [ id \in DOMAIN store |->
        LET pushed == SelectSeq(txn, LAMBDA r : r.id = id)
        IN  store[id] \o [ j \in DOMAIN pushed |-> RemoteRow(pushed[j]) ] ]

(***************************************************************************)
(* Exception handling of the three layers.                                 *)
(***************************************************************************)
\* Variant: the failure of the local write is raised again.
AppendReraises(failed) == failed

\* log_environment / log_security: "except Exception" around the whole body;
\* TRUE iff a failure of the local write reaches the caller.
AppendRaises(failed) == FALSE

\* _sync_measurements / _sync_security: "except psycopg2.Error".
CaughtInSync(e) == e = "pg"

\* Variant: the loop catches the psycopg2.Error family only.
CaughtPgOnly(e) == e = "pg"

\* _sync_loop: "except Exception" around the two _sync_* calls.
CaughtInLoop(e) == e \in {"pg", "other"}

\* Exceptions a remote call can raise: the psycopg2.Error family, or any
\* other exception (a lower-level failure that the driver does not wrap).
RemoteErrors == {"pg", "other"}

\* Variant: the block commits whatever way it is left.
ExitPgConnCommits(store, txn, e) == CommitRows(store, txn)

\* "with psycopg2.connect(...) as pg_conn": leaving the block with an
\* exception rolls the open transaction back; the result is the remote table.
ExitPgConn(store, txn, e) == IF e = "none" THEN CommitRows(store, txn) ELSE store

\* Variant: a failed INSERT is swallowed inside the loop and the call goes
\* on to commit and mark.
RaiseSwallowed(step) == IF step = "push" THEN "commit" ELSE "abort"

\* An exception raised by a remote call or by the local mark inside the
\* "with psycopg2.connect(...)" block leaves the block: the statements after
\* the raising one (commit, mark) are skipped.
Raise(step) == "abort"

\* Variant: one id past the last inserted row is marked too.
IdsToMarkOneMore(rs) ==
    IF rs = << >> THEN << >>
    ELSE [ i \in 1..(Len(rs) + 1) |-> IF i <= Len(rs) THEN rs[i].id ELSE rs[Len(rs)].id + 1 ]

\* ids_to_mark after the insert loop over the fetched rows.
IdsToMark(rs) == [ i \in DOMAIN rs |-> rs[i].id ]

(***************************************************************************)
(* Strings: a Python str is the sequence of its characters.                *)
(***************************************************************************)
lowercase == << "a", "b", "c", "d", "e", "f", "g", "h", "i", "j", "k", "l", "m",
                 "n", "o", "p", "q", "r", "s", "t", "u", "v", "w", "x", "y", "z" >>

uppercase == << "A", "B", "C", "D", "E", "F", "G", "H", "I", "J", "K", "L", "M",
                 "N", "O", "P", "Q", "R", "S", "T", "U", "V", "W", "X", "Y", "Z" >>

\* The characters str.strip() removes that occur in the inputs.
whitespace == {" ", "\t", "\n"}

\* The position of character c in alphabet abc, 0 if it is not in it.
IndexIn(abc, c) ==
    IF \E i \in DOMAIN abc : abc[i] = c
    THEN CHOOSE i \in DOMAIN abc : abc[i] = c
    ELSE 0

\* str.upper(), str.lower()
upper(str) ==
    [ i \in DOMAIN str |->
        IF IndexIn(lowercase, str[i]) > 0
        THEN uppercase[IndexIn(lowercase, str[i])] ELSE str[i] ]

lower(str) ==
    [ i \in DOMAIN str |->
        IF IndexIn(uppercase, str[i]) > 0
        THEN lowercase[IndexIn(uppercase, str[i])] ELSE str[i] ]

\* str.strip(): the leading and the trailing whitespace is removed.
strip(str) ==
    LET kept == { i \in DOMAIN str : str[i] \notin whitespace }
    IN  IF kept = {} THEN << >>
        ELSE SubSeq(str, CHOOSE i \in kept : \A j \in kept : i <= j,
                         CHOOSE i \in kept : \A j \in kept : i >= j)

(***************************************************************************)
(* ModeManager: constants and helpers.                                     *)
(***************************************************************************)
HOME == << "H", "O", "M", "E" >>

AWAY == << "A", "W", "A", "Y" >>

NIGHT == << "N", "I", "G", "H", "T" >>

VALID_MODES == {HOME, AWAY, NIGHT}

\* Variant: the candidate is not compared with VALID_MODES.
NormaliseUnchecked(m) ==
    [valid |-> TRUE, value |-> upper(strip(IF m = << >> THEN HOME ELSE m))]

\* _normalise: (mode or "HOME").strip().upper(); ValueError (valid = FALSE)
\* if the result is not one of VALID_MODES. The empty string is falsy, so
\* "mode or 'HOME'" replaces it by "HOME".
Normalise(m) ==
    LET c == upper(strip(IF m = << >> THEN HOME ELSE m))
    IN  [valid |-> c \in VALID_MODES, value |-> c]

\* The threads that call the ModeManager: the MQTT network thread
\* (_handle_remote_mode_request) and the polling thread.
ModeThreads == {"transport", "polling"}

\* The listeners a caller can register.
Listeners == {"on_mode_change", "listener"}

\* Arguments of set_mode.
ModeInputs ==
    { << "a", "w", "a", "y" >>,
      << " ", "N", "i", "G", "h", "T", "\n" >>,
      << "H", "O", "M", "E" >>,
      << >>,
      << " ", "\n" >>,
      << "p", "a", "r", "t", "y" >>,
      << "h", "o", " ", "m", "e" >> }

NoArg == [op |-> "none", arg |-> << >>, listener |-> "none"]

\* ModeManager.__init__ with the default initial_mode, no call in progress.
ModeManagerInit ==
    /\ mode = Normalise(HOME).value
    /\ callbacks = << >>
    /\ lock = "free"
    /\ mmPc = [t \in ModeThreads |-> "idle"]
    /\ mmArg = [t \in ModeThreads |-> NoArg]
    /\ candidate = [t \in ModeThreads |-> << >>]
    /\ toCall = [t \in ModeThreads |-> << >>]
    /\ done = [t \in ModeThreads |-> 0]
    /\ mmResult = [t \in ModeThreads |-> "none"]
    /\ invoked = [t \in ModeThreads |-> << >>]
    /\ commits = 0
    /\ commitOf = [t \in ModeThreads |-> 0]
    /\ got = [t \in ModeThreads |-> << >>]
    /\ mmCalls = 0

(***************************************************************************)
(* device_control_module: constants and helpers.                           *)
(***************************************************************************)
red_led == << "r", "e", "d", "_", "l", "e", "d" >>

green_led == << "g", "r", "e", "e", "n", "_", "l", "e", "d" >>

blue_led == << "b", "l", "u", "e", "_", "l", "e", "d" >>

fan == << "f", "a", "n" >>

buzzer == << "b", "u", "z", "z", "e", "r" >>

REQUIRED_DEVICES == {red_led, green_led, blue_led, fan, buzzer}

CONTROLLABLE_DEVICES == {red_led, green_led, blue_led, fan}

\* The threads that call set_device_state: the MQTT network thread
\* (_handle_remote_device_state) and the party worker.
DevThreads == {"transport", "party"}

\* The names the party worker toggles, and the names for which
\* _handle_remote_device_state writes no log entry.
LEDS == {red_led, green_led, blue_led}

\* Values of the device_name argument that _handle_remote_device_state hands
\* to set_device_state: names as configured, names in another case, the
\* buzzer in another case ('buzzer' itself is routed to pulse_buzzer) and
\* an unknown name.
DeviceNames ==
    { fan,
      << "F", "A", "N" >>,
      red_led,
      << "G", "r", "e", "e", "n", "_", "L", "E", "D" >>,
      << "B", "U", "Z", "Z", "E", "R" >>,
      << "s", "i", "r", "e", "n" >> }

\* The names thread t passes to set_device_state.
NamesOf(t) == IF t = "party" THEN LEDS ELSE DeviceNames

\* "on" if on else "off"
TargetState(on) == IF on THEN "on" ELSE "off"

\* Variant: every configured device, the buzzer included, can be toggled.
Required(d) == d \in REQUIRED_DEVICES

\* device in self.CONTROLLABLE_DEVICES
Controllable(d) == d \in CONTROLLABLE_DEVICES

NoCall == [name |-> << >>, on |-> FALSE]

\* device_control_module.__init__: _initialise_outputs has created every
\* output, switched it off and cached "off".
DeviceInit ==
    /\ outputs = REQUIRED_DEVICES
    /\ driver = [d \in REQUIRED_DEVICES |-> FALSE]
    /\ states = [d \in REQUIRED_DEVICES |-> "off"]
    /\ devPc = [t \in DevThreads |-> "idle"]
    /\ devArg = [t \in DevThreads |-> NoCall]
    /\ device = [t \in DevThreads |-> << >>]
    /\ seen = [t \in DevThreads |-> "none"]
    /\ devResult = [t \in DevThreads |-> "none"]
    /\ devWrites = [t \in DevThreads |-> 0]
    /\ logEntries = 0
    /\ devCalls = 0

(***************************************************************************)
(* pulse_buzzer: constants and helpers. Durations are in tenths of a       *)
(* second.                                                                 *)
(***************************************************************************)
\* float(self.config.get("buzzer_pulse_duration_s", 0.5))
DefaultPulse == 5

\* The 0.1 of max(pulse_for, 0.1)
MinHold == 1

\* Stands for the largest argument time.sleep accepts (about 9.2e9 s, the
\* range of the interpreter's nanosecond clock), scaled down; a larger one
\* makes time.sleep raise OverflowError.
SleepMax == 20

\* The threads that call pulse_buzzer: the MQTT network thread
\* (_handle_remote_device_state) and the polling thread
\* (security_module._pulse_buzzer).
PulseThreads == {"transport", "polling"}

\* Values of the duration argument: unspecified, zero, negative, shorter
\* and longer than the default, and one that time.sleep rejects.
Durations ==
    { [given |-> FALSE, value |-> 0] } \cup
    { [given |-> TRUE, value |-> v] : v \in {0, 0 - 3, 2, 7, SleepMax + 1} }

NoDuration == [given |-> FALSE, value |-> 0]

Max(a, b) == IF a >= b THEN a ELSE b

\* pulse_for = duration if duration is not None else self._pulse_duration
PulseFor(d) == IF d.given THEN d.value ELSE DefaultPulse

\* max(pulse_for, 0.1)
Hold(d) == Max(PulseFor(d), MinHold)

PulseInit ==
    /\ pulsePc = [t \in PulseThreads |-> "idle"]
    /\ pulseArg = [t \in PulseThreads |-> NoDuration]
    /\ held = [t \in PulseThreads |-> 0]
    /\ pulseResult = [t \in PulseThreads |-> "none"]
    /\ pulseCalls = 0

(***************************************************************************)
(* Party mode: constants.                                                  *)
(***************************************************************************)
\* seq of _party_worker: the LEDs each frame lights and its delay, in
\* hundredths of a second.
PartyFrames ==
    << [leds |-> {red_led}, delay |-> 30],
       [leds |-> {green_led}, delay |-> 30],
       [leds |-> {blue_led}, delay |-> 30],
       [leds |-> {red_led, green_led}, delay |-> 25],
       [leds |-> {green_led, blue_led}, delay |-> 25],
       [leds |-> {red_led, blue_led}, delay |-> 25],
       [leds |-> {red_led, green_led, blue_led}, delay |-> 50],
       [leds |-> {}, delay |-> 20] >>

\* ('red_led', 'green_led', 'blue_led') of the for loops
LedOrder == << red_led, green_led, blue_led >>

PartyInit ==
    /\ partyLock = "free"
    /\ partyThread = FALSE
    /\ alive = 0
    /\ stopEvent = FALSE
    /\ workerPc = "none"
    /\ frame = 1
    /\ led = 1
    /\ partyPc = "idle"
    /\ partyResult = "none"
    /\ partyCmds = 0
    /\ joinTimedOut = FALSE

\* No message is being handled.
NoMessage == [topic |-> << >>, payload |-> << >>, text |-> TRUE]

RouteInit ==
    /\ mqPc = "idle"
    /\ msg = NoMessage
    /\ routed = << >>
    /\ mqResult = "none"
    /\ delivered = 0

\* JeefHSApp.__init__ has run: running is True, the initial mode entry was
\* written to the log (line 91), the MQTT client's loop is started;
\* start() has not been called.
LifeInit ==
    /\ lifePc = "stopped"
    /\ appRunning = TRUE
    /\ loopPc = "none"
    /\ logOpen = TRUE
    /\ connected = TRUE
    /\ ticks = 0

\* The threads that write log entries.
LogThreads == {"polling", "transport"}

Dates == 1..MaxDays

\* Every entry written is synced to disk.
Durable == 0 - 1

\* The longest time the model measures for an unsynced entry.
MaxAge == FlushInterval + 2

\* No entry.
NoEntry == [stamp |-> 0, file |-> 0, event |-> "none", mode |-> << >>]

\* No call.
NoTag == << "none", 0 >>

\* JeefHSApp.__init__ (lines 74-91): the lock is free, and the call
\* _on_mode_change(get_mode()) of line 91 has opened the file of the day and
\* written the first entry, which is not synced to disk yet.
LogInit ==
    /\ logLock = "free"
    /\ logHandle = "open"
    /\ logFile = 1
    /\ logDate = 1
    /\ opened = 1
    /\ needsFlush = TRUE
    /\ wPc = [t \in LogThreads |-> "idle"]
    /\ wStamp = [t \in LogThreads |-> 0]
    /\ wSec = [t \in LogThreads |-> 0]
    /\ wEvent = [t \in LogThreads |-> "none"]
    /\ wTag = [t \in LogThreads |-> NoTag]
    /\ lastEntry = [t \in LogThreads |-> NoEntry]
    /\ written = 1
    /\ today = 1
    /\ sinceFlush = 0
    /\ pendingAge = 0

\* The dicts that hold a security sample: 0 is the dict built in __init__
\* (lines 82-88), i > 0 the dict that sample i returned.
Dicts == 0..MaxSamples

\* JeefHSApp.__init__: last_security_data holds the mode of the mode
\* manager; data_collection_loop starts with security_counts['motion'] 0.
SampleInit ==
    /\ secPc = "idle"
    /\ motionDetected = FALSE
    /\ sampleMode = << >>
    /\ buzzerTriggered = FALSE
    /\ pulseMark = 0
    /\ dictMode = [d \in Dicts |-> IF d = 0 THEN HOME ELSE << >>]
    /\ lastSec = 0
    /\ secData = 0
    /\ samples = 0
    /\ motionCount = 0
    /\ detections = 0
    /\ reported = 0
    /\ summaries = 0
    /\ enqueued = 0
    /\ sampleLogs = 0
    /\ counted = 0
    /\ onPc = "idle"
    /\ served = 0

\* JeefHSApp.__init__ has constructed ModeManager and device_control_module.
AppInit ==
    /\ ModeManagerInit
    /\ DeviceInit
    /\ PulseInit
    /\ PartyInit
    /\ RouteInit
    /\ LifeInit
    /\ LogInit
    /\ SampleInit

(***************************************************************************)
(* Initial state: DatabaseInterface.__init__ has run, the sync thread is   *)
(* started, the polling thread is about to take its first tick.            *)
(***************************************************************************)
InitWith(backlogs) ==
    /\ running = TRUE
    /\ configured \in BOOLEAN
    /\ \E b \in backlogs :
          /\ local = [k \in Kinds |->
                        Backlog(IF k = "measurements" THEN b[1] ELSE b[2])]
          /\ backlog0 = [k \in Kinds |->
                        IF k = "measurements" THEN b[1] ELSE b[2]]
    /\ remote = [k \in Kinds |-> [i \in 1..MaxId |-> << >>]]
    /\ prodPc = "tick"
    /\ sample = 0
    /\ pending = NoRow
    /\ lastAppend = "none"
    /\ syncPc = "loop"
    /\ syncing = "none"
    /\ rows = << >>
    /\ pgTxn = << >>
    /\ ids_to_mark = << >>
    /\ exc = "none"
    /\ failures = 0
    /\ passes = [k \in Kinds |-> 0]
    /\ unmarked = [k \in Kinds |-> << >>]
    /\ failedBatch = [k \in Kinds |-> {}]
    /\ closePc = "open"

\* The state of the whole application after JeefHSApp.__init__.
SyncInit == InitWith(InitialBacklogs) /\ AppInit

Appended(k) == Len(local[k]) - backlog0[k]

CanAppend == Appended("measurements") + Appended("security_events") < MaxAppends

\* The timestamp of a new sample: the clock reading, later than every
\* timestamp taken before.
Now == 2 + Appended("measurements") + Appended("security_events")

\* Points at which the push of the fetched rows can fail: psycopg2.connect
\* (0), the first INSERT, an INSERT in the middle of the batch, the last
\* INSERT. Point j > 0 is the failure of INSERT j, after j - 1 rows entered
\* the remote transaction.
FailPoints(rs) == {0, 1, (Len(rs) + 1) \div 2, Len(rs)}

CanFail == failures < MaxFailures

(***************************************************************************)
(* The polling thread: one tick of data_collection_loop.                   *)
(***************************************************************************)
\* A tick of data_collection_loop starts at "tick"; a tick in which no timer
\* fires changes nothing. collect_security_data: motion detected; the entry
\* is written to the log and db.log_security is called next.
SecurityMotion ==
    /\ prodPc = "tick"
    /\ CanAppend
    /\ sample' = Now
    /\ prodPc' = "log_security"
    /\ UNCHANGED << pending, lastAppend >>
    /\ UNCHANGED << running, configured, local, remote, failures >>
    /\ UNCHANGED syncVars
    /\ UNCHANGED ghostVars
    /\ UNCHANGED << closePc, appVars >>

\* collect_environmental_data after a security sample: the environment
\* timer has not fired; the tick ends with time.sleep(1).
EnvironmentQuiet ==
    /\ prodPc = "collect_environmental"
    /\ prodPc' = "tick"
    /\ UNCHANGED << sample, pending, lastAppend >>
    /\ UNCHANGED << running, configured, local, remote, failures >>
    /\ UNCHANGED syncVars
    /\ UNCHANGED ghostVars
    /\ UNCHANGED << closePc, appVars >>

\* collect_environmental_data, after a security sample or in a tick whose
\* security timer did not fire: a sample is taken and written to the log;
\* db.log_environment is called next.
EnvironmentSample ==
    /\ prodPc \in {"tick", "collect_environmental"}
    /\ CanAppend
    /\ sample' = Now
    /\ prodPc' = "log_environment"
    /\ UNCHANGED << pending, lastAppend >>
    /\ UNCHANGED << running, configured, local, remote, failures >>
    /\ UNCHANGED syncVars
    /\ UNCHANGED ghostVars
    /\ UNCHANGED << closePc, appVars >>

\* Table a log_* position appends to, and the position the tick continues at
\* when the call returns.
AppendKind(pc) == IF pc = "log_environment" THEN "measurements" ELSE "security_events"

AfterAppend(pc) == IF pc = "log_environment" THEN "env_publish" ELSE "security_timer"

\* Where the polling thread goes when log_* ends: back into the tick, or,
\* if the call raised, to the loop's exception handler.
Resume(pc, failed) == IF AppendRaises(failed) THEN "loop_error" ELSE AfterAppend(pc)

\* log_environment / log_security: sqlite3.connect and the INSERT, which
\* opens a transaction that is not committed yet.
LogInsert ==
    /\ prodPc \in {"log_environment", "log_security"}
    /\ pending = NoRow
    /\ pending' = [kind |-> AppendKind(prodPc), ts |-> sample]
    /\ UNCHANGED << prodPc, sample, lastAppend >>
    /\ UNCHANGED << running, configured, local, remote, failures >>
    /\ UNCHANGED syncVars
    /\ UNCHANGED ghostVars
    /\ UNCHANGED << closePc, appVars >>

\* log_environment / log_security: connect or INSERT raises (database
\* locked, disk error): caught by the call's own "except Exception".
LogInsertFails ==
    /\ prodPc \in {"log_environment", "log_security"}
    /\ pending = NoRow
    /\ CanFail
    /\ failures' = failures + 1
    /\ lastAppend' = "failed"
    /\ prodPc' = Resume(prodPc, TRUE)
    /\ UNCHANGED << sample, pending >>
    /\ UNCHANGED << running, configured, local, remote >>
    /\ UNCHANGED syncVars
    /\ UNCHANGED ghostVars
    /\ UNCHANGED << closePc, appVars >>

\* Leaving "with sqlite3.connect(...) as conn" commits the INSERT: the row
\* becomes visible to the other connections.
LogCommit ==
    /\ prodPc \in {"log_environment", "log_security"}
    /\ pending # NoRow
    /\ local' = [local EXCEPT ![pending.kind] = InsertRow(@, pending.ts)]
    /\ pending' = NoRow
    /\ lastAppend' = "ok"
    /\ prodPc' = Resume(prodPc, FALSE)
    /\ UNCHANGED << sample >>
    /\ UNCHANGED << running, configured, remote, failures >>
    /\ UNCHANGED syncVars
    /\ UNCHANGED ghostVars
    /\ UNCHANGED << closePc, appVars >>

\* The commit raises: the transaction is rolled back, the row is dropped and
\* the exception is caught by the call's own "except Exception".
LogCommitFails ==
    /\ prodPc \in {"log_environment", "log_security"}
    /\ pending # NoRow
    /\ CanFail
    /\ failures' = failures + 1
    /\ pending' = NoRow
    /\ lastAppend' = "failed"
    /\ prodPc' = Resume(prodPc, TRUE)
    /\ UNCHANGED << sample >>
    /\ UNCHANGED << running, configured, local, remote >>
    /\ UNCHANGED syncVars
    /\ UNCHANGED ghostVars
    /\ UNCHANGED << closePc, appVars >>

\* The rest of the tick after log_security: timers['security_check'] is
\* reset and the tick goes on to collect_environmental_data. After
\* log_environment: the sample is published and timers['env_check'] reset.
\* After an exception in the tick: the loop's "except Exception" logs it and
\* sleeps 5 s. Then the next tick starts.
TickContinue ==
    /\ prodPc \in {"security_timer", "env_publish", "loop_error"}
    /\ prodPc' = IF prodPc = "security_timer"
                 THEN "collect_environmental"
                 ELSE "tick"
    /\ lastAppend' = "none"
    /\ sample' = 0
    /\ UNCHANGED << pending >>
    /\ UNCHANGED << running, configured, local, remote, failures >>
    /\ UNCHANGED syncVars
    /\ UNCHANGED ghostVars
    /\ UNCHANGED << closePc, appVars >>

ProducerStep ==
    \/ SecurityMotion
    \/ EnvironmentQuiet
    \/ EnvironmentSample
    \/ LogInsert
    \/ LogInsertFails
    \/ LogCommit
    \/ LogCommitFails
    \/ TickContinue

(***************************************************************************)
(* The DBSyncWorker thread: _sync_loop, _sync_measurements, _sync_security.*)
(***************************************************************************)
\* Passes that drain the rows table k held at construction.
PassesNeeded(k) == (backlog0[k] + BatchSize - 1) \div BatchSize

Bump(k) == [passes EXCEPT ![k] = Min(@ + 1, PassesNeeded(k))]

\* Where _sync_loop goes when the _sync_* call on table k returns normally:
\* _sync_security follows _sync_measurements, time.sleep(10) follows
\* _sync_security.
AfterSync(k) ==
    IF k = "measurements"
    THEN [pc |-> "fetch", table |-> "security_events"]
    ELSE [pc |-> "sleep", table |-> "none"]

\* Where an exception e raised inside the inner try block of a _sync_* call
\* on table k goes: caught there (the call returns normally) or on to the
\* handler of _sync_loop.
AfterRaise(k, e) ==
    IF CaughtInSync(e) THEN AfterSync(k) ELSE [pc |-> "handler", table |-> "none"]

\* Where _sync_loop goes from its handler position with exception e in
\* flight: caught and logged, then time.sleep(10); otherwise the thread ends.
AfterHandler(e) == IF CaughtInLoop(e) THEN "sleep" ELSE "dead"

\* Variant: "while True", the flag is not read.
WhileTrue(flag) == TRUE

\* The loop condition of _sync_loop: "while self.running".
WhileRunning(flag) == flag

\* "while self.running": the loop ends when close() has cleared the flag.
LoopExit ==
    /\ syncPc = "loop"
    /\ ~WhileRunning(running)
    /\ syncPc' = "done"
    /\ UNCHANGED << syncing, rows, pgTxn, ids_to_mark, exc >>
    /\ UNCHANGED << running, configured, local, remote, failures >>
    /\ UNCHANGED prodVars
    /\ UNCHANGED ghostVars
    /\ UNCHANGED << closePc, appVars >>

\* No DATABASE_URL or no psycopg2: time.sleep(60); continue.
LoopBackoff ==
    /\ syncPc = "loop"
    /\ WhileRunning(running)
    /\ ~configured
    /\ syncPc' = "backoff"
    /\ UNCHANGED << syncing, rows, pgTxn, ids_to_mark, exc >>
    /\ UNCHANGED << running, configured, local, remote, failures >>
    /\ UNCHANGED prodVars
    /\ UNCHANGED ghostVars
    /\ UNCHANGED << closePc, appVars >>

\* A sync cycle starts: _sync_measurements is called.
LoopCycle ==
    /\ syncPc = "loop"
    /\ WhileRunning(running)
    /\ configured
    /\ syncPc' = "fetch"
    /\ syncing' = "measurements"
    /\ UNCHANGED << rows, pgTxn, ids_to_mark, exc >>
    /\ UNCHANGED << running, configured, local, remote, failures >>
    /\ UNCHANGED prodVars
    /\ UNCHANGED ghostVars
    /\ UNCHANGED << closePc, appVars >>

\* The end of time.sleep(60) or time.sleep(10).
Wake ==
    /\ syncPc \in {"backoff", "sleep"}
    /\ syncPc' = "loop"
    /\ UNCHANGED << syncing, rows, pgTxn, ids_to_mark, exc >>
    /\ UNCHANGED << running, configured, local, remote, failures >>
    /\ UNCHANGED prodVars
    /\ UNCHANGED ghostVars
    /\ UNCHANGED << closePc, appVars >>

\* sqlite3.connect, the SELECT and fetchall; "if not rows: return".
Fetch ==
    /\ syncPc = "fetch"
    /\ rows' = SelectUnsynced(CommittedView(local[syncing], pending))
    /\ IF rows' = << >>
       THEN /\ syncPc' = AfterSync(syncing).pc
            /\ syncing' = AfterSync(syncing).table
            /\ passes' = Bump(syncing)
       ELSE /\ syncPc' = "push"
            /\ UNCHANGED << syncing, passes >>
    /\ UNCHANGED << pgTxn, ids_to_mark, exc >>
    /\ UNCHANGED << running, configured, local, remote, failures >>
    /\ UNCHANGED prodVars
    /\ UNCHANGED << unmarked, failedBatch, backlog0 >>
    /\ UNCHANGED << closePc, appVars >>

\* sqlite3.connect or the SELECT raises a sqlite3 error: it is raised before
\* the inner try block and leaves the _sync_* call.
FetchFails ==
    /\ syncPc = "fetch"
    /\ CanFail
    /\ failures' = failures + 1
    /\ exc' = "other"
    /\ syncPc' = "handler"
    /\ syncing' = "none"
    /\ passes' = Bump(syncing)
    /\ UNCHANGED << rows, pgTxn, ids_to_mark >>
    /\ UNCHANGED << running, configured, local, remote >>
    /\ UNCHANGED prodVars
    /\ UNCHANGED << unmarked, failedBatch, backlog0 >>
    /\ UNCHANGED << closePc, appVars >>

\* psycopg2.connect and the INSERT of every fetched row in one remote
\* transaction.
Push ==
    /\ syncPc = "push"
    /\ pgTxn' = rows
    /\ ids_to_mark' = IdsToMark(rows)
    /\ syncPc' = "commit"
    /\ failedBatch' = [failedBatch EXCEPT ![syncing] = {}]
    /\ UNCHANGED << syncing, rows, exc >>
    /\ UNCHANGED << running, configured, local, remote, failures >>
    /\ UNCHANGED prodVars
    /\ UNCHANGED << passes, unmarked, backlog0 >>
    /\ UNCHANGED << closePc, appVars >>

\* The push fails at point j: psycopg2.connect (j = 0) or the j-th INSERT,
\* after j - 1 rows were inserted in the open transaction.
PushFails ==
    /\ syncPc = "push"
    /\ CanFail
    /\ failures' = failures + 1
    /\ \E j \in FailPoints(rows), e \in RemoteErrors :
          /\ pgTxn' = SubSeq(rows, 1, j - 1)
          /\ ids_to_mark' = IdsToMark(SubSeq(rows, 1, j - 1))
          /\ exc' = e
    /\ syncPc' = Raise("push")
    /\ failedBatch' = [failedBatch EXCEPT ![syncing] = Ids(rows)]
    /\ UNCHANGED << syncing, rows >>
    /\ UNCHANGED << running, configured, local, remote >>
    /\ UNCHANGED prodVars
    /\ UNCHANGED << passes, unmarked, backlog0 >>
    /\ UNCHANGED << closePc, appVars >>

\* pg_conn.commit() succeeds.
Commit ==
    /\ syncPc = "commit"
    /\ remote' = [remote EXCEPT ![syncing] = CommitRows(@, pgTxn)]
    /\ pgTxn' = << >>
    /\ syncPc' = "mark"
    /\ UNCHANGED << syncing, rows, ids_to_mark, exc >>
    /\ UNCHANGED << running, configured, local, failures >>
    /\ UNCHANGED prodVars
    /\ UNCHANGED ghostVars
    /\ UNCHANGED << closePc, appVars >>

\* pg_conn.commit() raises: nothing is committed.
CommitFails ==
    /\ syncPc = "commit"
    /\ CanFail
    /\ failures' = failures + 1
    /\ \E e \in RemoteErrors : exc' = e
    /\ syncPc' = Raise("commit")
    /\ failedBatch' = [failedBatch EXCEPT ![syncing] = Ids(rows)]
    /\ UNCHANGED << syncing, rows, pgTxn, ids_to_mark >>
    /\ UNCHANGED << running, configured, local, remote >>
    /\ UNCHANGED prodVars
    /\ UNCHANGED << passes, unmarked, backlog0 >>
    /\ UNCHANGED << closePc, appVars >>

\* "if ids_to_mark:" the UPDATE and local_conn.commit(), one local
\* transaction; it needs the write lock of the database file, which the
\* producer holds while its INSERT is uncommitted. Then the call returns.
Mark ==
    /\ syncPc = "mark"
    /\ pending = NoRow
    /\ local' = [local EXCEPT ![syncing] =
                    IF ids_to_mark # << >> THEN UpdateSynced(@, Range(ids_to_mark)) ELSE @]
    /\ syncPc' = AfterSync(syncing).pc
    /\ syncing' = AfterSync(syncing).table
    /\ passes' = Bump(syncing)
    /\ rows' = << >>
    /\ ids_to_mark' = << >>
    /\ UNCHANGED << pgTxn, exc >>
    /\ UNCHANGED << running, configured, remote, failures >>
    /\ UNCHANGED prodVars
    /\ UNCHANGED << unmarked, failedBatch, backlog0 >>
    /\ UNCHANGED << closePc, appVars >>

\* The UPDATE or the local commit raises a sqlite3 error (database is
\* locked, disk error): the local transaction is rolled back.
MarkFails ==
    /\ syncPc = "mark"
    /\ CanFail
    /\ failures' = failures + 1
    /\ exc' = "other"
    /\ syncPc' = Raise("mark")
    /\ unmarked' = [unmarked EXCEPT ![syncing] = Append(@, Range(ids_to_mark))]
    /\ UNCHANGED << syncing, rows, pgTxn, ids_to_mark >>
    /\ UNCHANGED << running, configured, local, remote >>
    /\ UNCHANGED prodVars
    /\ UNCHANGED << passes, failedBatch, backlog0 >>
    /\ UNCHANGED << closePc, appVars >>

\* An exception leaves the "with psycopg2.connect(...)" block, which rolls
\* the remote transaction back; "except psycopg2.Error" logs a warning and
\* the call returns, any other exception leaves the call.
Abort ==
    /\ syncPc = "abort"
    /\ remote' = [remote EXCEPT ![syncing] = ExitPgConn(@, pgTxn, exc)]
    /\ pgTxn' = << >>
    /\ rows' = << >>
    /\ ids_to_mark' = << >>
    /\ syncPc' = AfterRaise(syncing, exc).pc
    /\ syncing' = AfterRaise(syncing, exc).table
    /\ exc' = IF CaughtInSync(exc) THEN "none" ELSE exc
    /\ passes' = Bump(syncing)
    /\ UNCHANGED << running, configured, local, failures >>
    /\ UNCHANGED prodVars
    /\ UNCHANGED << unmarked, failedBatch, backlog0 >>
    /\ UNCHANGED << closePc, appVars >>

\* _sync_loop: "except Exception as e: logger.error(...)".
Handler ==
    /\ syncPc = "handler"
    /\ syncPc' = AfterHandler(exc)
    /\ exc' = "none"
    /\ UNCHANGED << syncing, rows, pgTxn, ids_to_mark >>
    /\ UNCHANGED << running, configured, local, remote, failures >>
    /\ UNCHANGED prodVars
    /\ UNCHANGED ghostVars
    /\ UNCHANGED << closePc, appVars >>

SyncStep ==
    \/ LoopExit
    \/ LoopBackoff
    \/ LoopCycle
    \/ Wake
    \/ Fetch
    \/ FetchFails
    \/ Push
    \/ PushFails
    \/ Commit
    \/ CommitFails
    \/ Mark
    \/ MarkFails
    \/ Abort
    \/ Handler

\* close(): the main thread clears the running flag and, if the sync thread
\* is alive, joins it with a timeout of 2 s.
Close ==
    /\ running
    /\ running' = FALSE
    /\ closePc' = IF syncPc \in {"done", "dead"} THEN "returned" ELSE "join"
    /\ UNCHANGED appVars
    /\ UNCHANGED << configured, local, remote, failures >>
    /\ UNCHANGED prodVars
    /\ UNCHANGED syncVars
    /\ UNCHANGED ghostVars

\* sync_thread.join(timeout=2) returns: the thread has ended or the 2 s are
\* over; close() returns.
CloseJoin ==
    /\ closePc = "join"
    /\ closePc' = "returned"
    /\ UNCHANGED << running, configured, local, remote, failures >>
    /\ UNCHANGED prodVars
    /\ UNCHANGED syncVars
    /\ UNCHANGED ghostVars
    /\ UNCHANGED appVars

SyncNext ==
    \/ SecurityMotion
    \/ EnvironmentQuiet
    \/ EnvironmentSample
    \/ LogInsert
    \/ LogInsertFails
    \/ LogCommit
    \/ LogCommitFails
    \/ TickContinue
    \/ LoopExit
    \/ LoopBackoff
    \/ LoopCycle
    \/ Wake
    \/ Fetch
    \/ FetchFails
    \/ Push
    \/ PushFails
    \/ Commit
    \/ CommitFails
    \/ Mark
    \/ MarkFails
    \/ Abort
    \/ Handler
    \/ Close
    \/ CloseJoin

SyncSpec == SyncInit /\ [][SyncNext]_vars

\* The liveness properties are checked from the backlogs that one or two
\* cycles drain. The operating system keeps scheduling the sync thread, and
\* a local transaction the polling thread has opened ends.
SyncFairInit ==
    InitWith({ <<0, 0>>, <<1, BatchSize + 1>> }) /\ AppInit

SyncFairSpec ==
    /\ SyncFairInit
    /\ [][SyncNext]_vars
    /\ WF_vars(SyncStep)
    /\ WF_vars(LogCommit \/ LogCommitFails)
    /\ WF_vars(CloseJoin)

(***************************************************************************)
(* ModeManager: set_mode, register_callback, get_mode, called by the       *)
(* threads of ModeThreads.                                                 *)
(***************************************************************************)
mmLocals == << candidate, toCall, done >>

\* set_mode(new_mode) is called by thread t.
SetModeCall(t) ==
    /\ mmPc[t] = "idle"
    /\ mmCalls < MaxModeCalls
    /\ mmCalls' = mmCalls + 1
    /\ \E m \in ModeInputs :
          mmArg' = [mmArg EXCEPT ![t] = [op |-> "set_mode", arg |-> m, listener |-> "none"]]
    /\ mmPc' = [mmPc EXCEPT ![t] = "normalise"]
    /\ mmResult' = [mmResult EXCEPT ![t] = "none"]
    /\ invoked' = [invoked EXCEPT ![t] = << >>]
    /\ commitOf' = [commitOf EXCEPT ![t] = 0]
    /\ got' = [got EXCEPT ![t] = << >>]
    /\ UNCHANGED << mode, callbacks, lock, commits >>
    /\ UNCHANGED mmLocals
    /\ UNCHANGED << dbVars, logVars, sampleVars, deviceVars, extVars >>

\* candidate = self._normalise(new_mode): the candidate, or ValueError, which
\* leaves set_mode before the lock is taken.
SetModeNormalise(t) ==
    /\ mmPc[t] = "normalise"
    /\ LET n == Normalise(mmArg[t].arg)
       IN  IF n.valid
           THEN /\ candidate' = [candidate EXCEPT ![t] = n.value]
                /\ mmPc' = [mmPc EXCEPT ![t] = "acquire"]
                /\ UNCHANGED << mmResult, mmArg >>
           ELSE /\ mmResult' = [mmResult EXCEPT ![t] = "ValueError"]
                /\ mmPc' = [mmPc EXCEPT ![t] = "idle"]
                /\ mmArg' = [mmArg EXCEPT ![t] = NoArg]
                /\ UNCHANGED candidate
    /\ UNCHANGED << mode, callbacks, lock, toCall, done, invoked, commits,
                    commitOf, got, mmCalls >>
    /\ UNCHANGED << dbVars, logVars, sampleVars, deviceVars, extVars >>

\* "with self._lock": thread t takes the lock when no other thread holds it.
SetModeAcquire(t) ==
    /\ mmPc[t] = "acquire"
    /\ lock = "free"
    /\ lock' = t
    /\ mmPc' = [mmPc EXCEPT ![t] = "locked"]
    /\ UNCHANGED << mode, callbacks, mmArg, mmResult, invoked, commits,
                    commitOf, got, mmCalls >>
    /\ UNCHANGED mmLocals
    /\ UNCHANGED << dbVars, logVars, sampleVars, deviceVars, extVars >>

\* Variant: the comparison with the current mode is left out.
AlwaysChanged(c, m) == FALSE

\* "if candidate == self._mode"
Unchanged(c, m) == c = m

\* Variant: the listeners are called inside the "with self._lock" block.
LockKept(t) == t

\* The owner of the lock when the listeners are called: the with block has
\* been left.
LockAfterCommit(t) == "free"

\* The body of "with self._lock": the candidate equal to the mode returns
\* False; otherwise the mode is set, the list of callbacks is copied and the
\* lock is released.
SetModeCommit(t) ==
    /\ mmPc[t] = "locked"
    /\ lock = t
    /\ IF Unchanged(candidate[t], mode)
       THEN /\ mmResult' = [mmResult EXCEPT ![t] = "False"]
            /\ mmPc' = [mmPc EXCEPT ![t] = "idle"]
            /\ mmArg' = [mmArg EXCEPT ![t] = NoArg]
            /\ candidate' = [candidate EXCEPT ![t] = << >>]
            /\ lock' = "free"
            /\ UNCHANGED << mode, toCall, done, commits, commitOf >>
       ELSE /\ mode' = candidate[t]
            /\ toCall' = [toCall EXCEPT ![t] = callbacks]
            /\ done' = [done EXCEPT ![t] = 0]
            /\ commits' = commits + 1
            /\ commitOf' = [commitOf EXCEPT ![t] = commits + 1]
            /\ lock' = LockAfterCommit(t)
            /\ mmPc' = [mmPc EXCEPT ![t] = "notify"]
            /\ UNCHANGED << mmResult, mmArg, candidate >>
    /\ UNCHANGED << callbacks, invoked, got, mmCalls >>
    /\ UNCHANGED << dbVars, logVars, sampleVars, deviceVars, extVars >>

\* "for callback in callbacks": the next callback is called with candidate.
CallbackBegin(t) ==
    /\ mmPc[t] = "notify"
    /\ done[t] < Len(toCall[t])
    /\ invoked' = [invoked EXCEPT ![t] =
          Append(@, [listener |-> toCall[t][done[t] + 1],
                     value |-> candidate[t],
                     outcome |-> "running"])]
    /\ mmPc' = [mmPc EXCEPT ![t] = "callback"]
    /\ UNCHANGED << mode, callbacks, lock, mmArg, mmResult, commits, commitOf,
                    got, mmCalls >>
    /\ UNCHANGED mmLocals
    /\ UNCHANGED << dbVars, logVars, sampleVars, deviceVars, extVars >>

\* Variant: no try/except around the call, the exception leaves set_mode.
CallbackAborts(outcome) == IF outcome = "raised" THEN "raise" ELSE "notify"

\* Where set_mode goes when a callback ends: an exception is caught and
\* logged ("except Exception"), the loop goes on.
AfterCallback(outcome) == "notify"

\* The callback in progress returns, or raises an exception.
CallbackEnd(t) ==
    /\ mmPc[t] = "callback"
    /\ \E outcome \in {"returned", "raised"} :
          /\ invoked' = [invoked EXCEPT ![t][Len(invoked[t])].outcome = outcome]
          /\ IF AfterCallback(outcome) = "notify"
             THEN /\ done' = [done EXCEPT ![t] = @ + 1]
                  /\ mmPc' = [mmPc EXCEPT ![t] = "notify"]
                  /\ lock' = lock
                  /\ UNCHANGED << mmResult, mmArg, candidate, toCall >>
             ELSE /\ mmResult' = [mmResult EXCEPT ![t] = "Exception"]
                  /\ mmPc' = [mmPc EXCEPT ![t] = "idle"]
                  /\ mmArg' = [mmArg EXCEPT ![t] = NoArg]
                  /\ candidate' = [candidate EXCEPT ![t] = << >>]
                  /\ toCall' = [toCall EXCEPT ![t] = << >>]
                  /\ done' = [done EXCEPT ![t] = 0]
                  /\ lock' = IF lock = t THEN "free" ELSE lock
    /\ UNCHANGED << mode, callbacks, commits, commitOf, got, mmCalls >>
    /\ UNCHANGED << dbVars, logVars, sampleVars, deviceVars, extVars >>

\* The loop over the callbacks is over: return True.
SetModeReturn(t) ==
    /\ mmPc[t] = "notify"
    /\ done[t] >= Len(toCall[t])
    /\ mmResult' = [mmResult EXCEPT ![t] = "True"]
    /\ mmPc' = [mmPc EXCEPT ![t] = "idle"]
    /\ mmArg' = [mmArg EXCEPT ![t] = NoArg]
    /\ candidate' = [candidate EXCEPT ![t] = << >>]
    /\ toCall' = [toCall EXCEPT ![t] = << >>]
    /\ done' = [done EXCEPT ![t] = 0]
    /\ lock' = IF lock = t THEN "free" ELSE lock
    /\ UNCHANGED << mode, callbacks, invoked, commits, commitOf, got, mmCalls >>
    /\ UNCHANGED << dbVars, logVars, sampleVars, deviceVars, extVars >>

\* register_callback(callback) is called by thread t.
RegisterCall(t) ==
    /\ mmPc[t] = "idle"
    /\ mmCalls < MaxModeCalls
    /\ mmCalls' = mmCalls + 1
    /\ \E l \in Listeners :
          mmArg' = [mmArg EXCEPT ![t] = [op |-> "register", arg |-> << >>, listener |-> l]]
    /\ mmPc' = [mmPc EXCEPT ![t] = "register"]
    /\ mmResult' = [mmResult EXCEPT ![t] = "none"]
    /\ got' = [got EXCEPT ![t] = << >>]
    /\ UNCHANGED << mode, callbacks, lock, invoked, commits, commitOf >>
    /\ UNCHANGED mmLocals
    /\ UNCHANGED << dbVars, logVars, sampleVars, deviceVars, extVars >>

\* "if callback not in self._callbacks": read without the lock.
RegisterCheck(t) ==
    /\ mmPc[t] = "register"
    /\ IF mmArg[t].listener \in Range(callbacks)
       THEN /\ mmPc' = [mmPc EXCEPT ![t] = "idle"]
            /\ mmArg' = [mmArg EXCEPT ![t] = NoArg]
            /\ mmResult' = [mmResult EXCEPT ![t] = "None"]
       ELSE /\ mmPc' = [mmPc EXCEPT ![t] = "append"]
            /\ UNCHANGED << mmArg, mmResult >>
    /\ UNCHANGED << mode, callbacks, lock, invoked, commits, commitOf, got, mmCalls >>
    /\ UNCHANGED mmLocals
    /\ UNCHANGED << dbVars, logVars, sampleVars, deviceVars, extVars >>

\* self._callbacks.append(callback)
RegisterAppend(t) ==
    /\ mmPc[t] = "append"
    /\ callbacks' = Append(callbacks, mmArg[t].listener)
    /\ mmPc' = [mmPc EXCEPT ![t] = "idle"]
    /\ mmArg' = [mmArg EXCEPT ![t] = NoArg]
    /\ mmResult' = [mmResult EXCEPT ![t] = "None"]
    /\ UNCHANGED << mode, lock, invoked, commits, commitOf, got, mmCalls >>
    /\ UNCHANGED mmLocals
    /\ UNCHANGED << dbVars, logVars, sampleVars, deviceVars, extVars >>

\* get_mode() by a thread that is in no other ModeManager call: "with
\* self._lock: return self._mode" waits while another thread holds the lock.
GetMode(t) ==
    /\ mmPc[t] = "idle"
    /\ lock = "free"
    /\ got[t] # mode
    /\ got' = [got EXCEPT ![t] = mode]
    /\ UNCHANGED << mode, callbacks, lock, mmPc, mmArg, mmResult, invoked,
                    commits, commitOf, mmCalls >>
    /\ UNCHANGED mmLocals
    /\ UNCHANGED << dbVars, logVars, sampleVars, deviceVars, extVars >>

ModeNext ==
    \E t \in ModeThreads :
        \/ SetModeCall(t)
        \/ SetModeNormalise(t)
        \/ SetModeAcquire(t)
        \/ SetModeCommit(t)
        \/ CallbackBegin(t)
        \/ CallbackEnd(t)
        \/ SetModeReturn(t)
        \/ RegisterCall(t)
        \/ RegisterCheck(t)
        \/ RegisterAppend(t)
        \/ GetMode(t)

\* The ModeManager alone: the local buffer and the devices are at rest.
ModeInit ==
    /\ InitWith({ <<0, 0>> })
    /\ configured = FALSE
    /\ AppInit

ModeSpec == ModeInit /\ [][ModeNext]_vars

(***************************************************************************)
(* device_control_module.set_device_state, one step per statement, called  *)
(* by the MQTT network thread through _handle_remote_device_state and by   *)
(* the party worker; device_control_module.cleanup, called by the main     *)
(* thread at shutdown while both callers may still be running.             *)
(***************************************************************************)
devLocals == << devArg, device, seen, devResult, devWrites >>

\* Where a call of thread t returns to: line 298 of the handler for the
\* network thread, the caller's loop for the party worker.
ReturnTo(t) == IF t = "transport" THEN "handler" ELSE "idle"

\* set_device_state(device_name, on) is called; device = device_name.lower()
SetDeviceCall(t) ==
    /\ devPc[t] = "idle"
    /\ devCalls < MaxDevCalls
    /\ \E name \in NamesOf(t) : \E on \in BOOLEAN :
          /\ devArg' = [devArg EXCEPT ![t] = [name |-> name, on |-> on]]
          /\ device' = [device EXCEPT ![t] = lower(name)]
    /\ seen' = [seen EXCEPT ![t] = "none"]
    /\ devResult' = [devResult EXCEPT ![t] = "none"]
    /\ devWrites' = [devWrites EXCEPT ![t] = 0]
    /\ devPc' = [devPc EXCEPT ![t] = "check"]
    /\ devCalls' = devCalls + 1
    /\ UNCHANGED << outputs, driver, states, logEntries >>
    /\ UNCHANGED << dbVars, logVars, sampleVars, modeVars, extVars >>

\* if device not in self.CONTROLLABLE_DEVICES: return False
SetDeviceCheck(t) ==
    /\ devPc[t] = "check"
    /\ IF Controllable(device[t])
          THEN /\ devPc' = [devPc EXCEPT ![t] = "compare"]
               /\ UNCHANGED devResult
          ELSE /\ devPc' = [devPc EXCEPT ![t] = ReturnTo(t)]
               /\ devResult' = [devResult EXCEPT ![t] = "False"]
    /\ UNCHANGED << outputs, driver, states, devArg, device, seen, devWrites,
                    logEntries, devCalls >>
    /\ UNCHANGED << dbVars, logVars, sampleVars, modeVars, extVars >>

\* if self._states.get(device) == target_state: return False
SetDeviceCompare(t) ==
    /\ devPc[t] = "compare"
    /\ seen' = [seen EXCEPT ![t] = states[device[t]]]
    /\ IF states[device[t]] = TargetState(devArg[t].on)
          THEN /\ devPc' = [devPc EXCEPT ![t] = ReturnTo(t)]
               /\ devResult' = [devResult EXCEPT ![t] = "False"]
          ELSE /\ devPc' = [devPc EXCEPT ![t] = "lookup"]
               /\ UNCHANGED devResult
    /\ UNCHANGED << outputs, driver, states, devArg, device, devWrites,
                    logEntries, devCalls >>
    /\ UNCHANGED << dbVars, logVars, sampleVars, modeVars, extVars >>

\* output = self._outputs.get(device); if output is None: return False
SetDeviceLookup(t) ==
    /\ devPc[t] = "lookup"
    /\ IF device[t] \in outputs
          THEN /\ devPc' = [devPc EXCEPT ![t] = "write"]
               /\ UNCHANGED devResult
          ELSE /\ devPc' = [devPc EXCEPT ![t] = ReturnTo(t)]
               /\ devResult' = [devResult EXCEPT ![t] = "False"]
    /\ UNCHANGED << outputs, driver, states, devArg, device, seen, devWrites,
                    logEntries, devCalls >>
    /\ UNCHANGED << dbVars, logVars, sampleVars, modeVars, extVars >>

\* output.set(on). The call holds the wrapper it looked up; if cleanup has
\* closed it since, the write goes to a released pin and raises on real
\* GPIO, and succeeds on the software stub.
SetDeviceWrite(t) ==
    /\ devPc[t] = "write"
    /\ \/ /\ driver' = [driver EXCEPT ![device[t]] = devArg[t].on]
          /\ devWrites' = [devWrites EXCEPT ![t] = devWrites[t] + 1]
          /\ devPc' = [devPc EXCEPT ![t] = "cache"]
          /\ UNCHANGED devResult
       \/ /\ device[t] \notin outputs
          /\ devResult' = [devResult EXCEPT ![t] = "Exception"]
          /\ devPc' = [devPc EXCEPT ![t] = "idle"]
          /\ UNCHANGED << driver, devWrites >>
    /\ UNCHANGED << outputs, states, devArg, device, seen, logEntries,
                    devCalls >>
    /\ UNCHANGED << dbVars, logVars, sampleVars, modeVars, extVars >>

\* self._states[device] = target_state; return True
SetDeviceCache(t) ==
    /\ devPc[t] = "cache"
    /\ states' = [states EXCEPT ![device[t]] = TargetState(devArg[t].on)]
    /\ devResult' = [devResult EXCEPT ![t] = "True"]
    /\ devPc' = [devPc EXCEPT ![t] = ReturnTo(t)]
    /\ UNCHANGED << outputs, driver, devArg, device, seen, devWrites,
                    logEntries, devCalls >>
    /\ UNCHANGED << dbVars, logVars, sampleVars, modeVars, extVars >>

\* _handle_remote_device_state after the call: if changed, and device_name
\* is not one of the three LED names, _write_log_entry.
HandlerLog(t) ==
    /\ devPc[t] = "handler"
    /\ logEntries' = IF devResult[t] = "True" /\ devArg[t].name \notin LEDS
                        THEN logEntries + 1
                        ELSE logEntries
    /\ logOpen' = ((devResult[t] = "True" /\ devArg[t].name \notin LEDS) \/ logOpen)
    /\ devPc' = [devPc EXCEPT ![t] = "idle"]
    /\ UNCHANGED << outputs, driver, states, devCalls >>
    /\ UNCHANGED devLocals
    /\ UNCHANGED lifeButLog
    /\ UNCHANGED << dbVars, logVars, sampleVars, modeVars, pulseVars, partyVars, routeVars >>

\* cleanup(): every output is closed and self._outputs is cleared.
Cleanup ==
    /\ outputs # {}
    /\ outputs' = {}
    /\ UNCHANGED << driver, states, devPc, logEntries, devCalls >>
    /\ UNCHANGED devLocals
    /\ UNCHANGED << dbVars, logVars, sampleVars, modeVars, extVars >>

DeviceNext ==
    \/ \E t \in DevThreads :
          \/ SetDeviceCall(t)
          \/ SetDeviceCheck(t)
          \/ SetDeviceCompare(t)
          \/ SetDeviceLookup(t)
          \/ SetDeviceWrite(t)
          \/ SetDeviceCache(t)
          \/ HandlerLog(t)
    \/ Cleanup

DeviceSpec == ModeInit /\ [][DeviceNext]_vars

(***************************************************************************)
(* device_control_module.pulse_buzzer, one step per statement.             *)
(***************************************************************************)
setLocals == << devPc, devArg, device, seen, devResult, devWrites, logEntries,
                devCalls >>

\* pulse_buzzer(duration) is called.
PulseCall(t) ==
    /\ pulsePc[t] = "idle"
    /\ pulseCalls < MaxPulseCalls
    /\ \E d \in Durations : pulseArg' = [pulseArg EXCEPT ![t] = d]
    /\ held' = [held EXCEPT ![t] = 0]
    /\ pulseResult' = [pulseResult EXCEPT ![t] = "none"]
    /\ pulsePc' = [pulsePc EXCEPT ![t] = "lookup"]
    /\ pulseCalls' = pulseCalls + 1
    /\ UNCHANGED << outputs, driver, states >>
    /\ UNCHANGED setLocals
    /\ UNCHANGED << dbVars, logVars, sampleVars, modeVars, partyVars, routeVars, lifeVars >>

\* buzzer = self._outputs.get("buzzer"); if buzzer is None: return
PulseLookup(t) ==
    /\ pulsePc[t] = "lookup"
    /\ IF buzzer \in outputs
          THEN /\ pulsePc' = [pulsePc EXCEPT ![t] = "cache_on"]
               /\ UNCHANGED pulseResult
          ELSE /\ pulsePc' = [pulsePc EXCEPT ![t] = "idle"]
               /\ pulseResult' = [pulseResult EXCEPT ![t] = "ignored"]
    /\ UNCHANGED << outputs, driver, states, pulseArg, held, pulseCalls >>
    /\ UNCHANGED setLocals
    /\ UNCHANGED << dbVars, logVars, sampleVars, modeVars, partyVars, routeVars, lifeVars >>

\* self._states["buzzer"] = "on"
PulseCacheOn(t) ==
    /\ pulsePc[t] = "cache_on"
    /\ states' = [states EXCEPT ![buzzer] = "on"]
    /\ pulsePc' = [pulsePc EXCEPT ![t] = "set_on"]
    /\ UNCHANGED << outputs, driver, pulseArg, held, pulseResult, pulseCalls >>
    /\ UNCHANGED setLocals
    /\ UNCHANGED << dbVars, logVars, sampleVars, modeVars, partyVars, routeVars, lifeVars >>

\* buzzer.set(True). As in set_device_state, a write to an output that
\* cleanup has closed meanwhile raises on real GPIO.
PulseSetOn(t) ==
    /\ pulsePc[t] = "set_on"
    /\ \/ /\ driver' = [driver EXCEPT ![buzzer] = TRUE]
          /\ pulsePc' = [pulsePc EXCEPT ![t] = "hold"]
          /\ UNCHANGED pulseResult
       \/ /\ buzzer \notin outputs
          /\ pulseResult' = [pulseResult EXCEPT ![t] = "Exception"]
          /\ pulsePc' = [pulsePc EXCEPT ![t] = "idle"]
          /\ UNCHANGED driver
    /\ UNCHANGED << outputs, states, pulseArg, held, pulseCalls >>
    /\ UNCHANGED setLocals
    /\ UNCHANGED << dbVars, logVars, sampleVars, modeVars, partyVars, routeVars, lifeVars >>

\* time.sleep(max(pulse_for, 0.1)): returns after the hold, or raises
\* OverflowError for a value it cannot represent; pulse_buzzer has no try
\* block, so the exception leaves the call.
PulseHold(t) ==
    /\ pulsePc[t] = "hold"
    /\ IF Hold(pulseArg[t]) <= SleepMax
          THEN /\ held' = [held EXCEPT ![t] = Hold(pulseArg[t])]
               /\ pulsePc' = [pulsePc EXCEPT ![t] = "set_off"]
               /\ UNCHANGED pulseResult
          ELSE /\ pulseResult' = [pulseResult EXCEPT ![t] = "OverflowError"]
               /\ pulsePc' = [pulsePc EXCEPT ![t] = "idle"]
               /\ UNCHANGED held
    /\ UNCHANGED << outputs, driver, states, pulseArg, pulseCalls >>
    /\ UNCHANGED setLocals
    /\ UNCHANGED << dbVars, logVars, sampleVars, modeVars, partyVars, routeVars, lifeVars >>

\* buzzer.set(False)
PulseSetOff(t) ==
    /\ pulsePc[t] = "set_off"
    /\ \/ /\ driver' = [driver EXCEPT ![buzzer] = FALSE]
          /\ pulsePc' = [pulsePc EXCEPT ![t] = "cache_off"]
          /\ UNCHANGED pulseResult
       \/ /\ buzzer \notin outputs
          /\ pulseResult' = [pulseResult EXCEPT ![t] = "Exception"]
          /\ pulsePc' = [pulsePc EXCEPT ![t] = "idle"]
          /\ UNCHANGED driver
    /\ UNCHANGED << outputs, states, pulseArg, held, pulseCalls >>
    /\ UNCHANGED setLocals
    /\ UNCHANGED << dbVars, logVars, sampleVars, modeVars, partyVars, routeVars, lifeVars >>

\* self._states["buzzer"] = "off"; the call returns.
PulseCacheOff(t) ==
    /\ pulsePc[t] = "cache_off"
    /\ states' = [states EXCEPT ![buzzer] = "off"]
    /\ pulseResult' = [pulseResult EXCEPT ![t] = "returned"]
    /\ pulsePc' = [pulsePc EXCEPT ![t] = "idle"]
    /\ UNCHANGED << outputs, driver, pulseArg, held, pulseCalls >>
    /\ UNCHANGED setLocals
    /\ UNCHANGED << dbVars, logVars, sampleVars, modeVars, partyVars, routeVars, lifeVars >>

PulseNext ==
    \/ \E t \in PulseThreads :
          \/ PulseCall(t)
          \/ PulseLookup(t)
          \/ PulseCacheOn(t)
          \/ PulseSetOn(t)
          \/ PulseHold(t)
          \/ PulseSetOff(t)
          \/ PulseCacheOff(t)
    \/ Cleanup

PulseSpec == ModeInit /\ [][PulseNext]_vars

(***************************************************************************)
(* Party mode: _start_party_mode and _stop_party_mode, called by the MQTT  *)
(* thread, and _party_worker, run by the PartyMode thread. The worker's    *)
(* set_device_state calls are the steps SetDeviceCheck .. SetDeviceCache   *)
(* of thread "party".                                                      *)
(***************************************************************************)
\* What every step of party mode but a join leaves alone.
aroundParty == << dbVars, logVars, sampleVars, modeVars, pulseVars, routeVars, lifeVars, joinTimedOut >>

registry == << outputs, driver, states >>

workerVars == << workerPc, frame, led >>

callerVars == << partyPc, partyResult, partyCmds >>

\* Variant: the liveness of the previous thread is not looked at.
NeverAlive == FALSE

\* self._party_thread and self._party_thread.is_alive()
WorkerAlive == partyThread /\ workerPc # "exited"

\* states.get(led) != 'off' for no led of ('red_led', 'green_led', 'blue_led')
LedsOff(st) == \A i \in DOMAIN LedOrder : st[LedOrder[i]] = "off"

\* Variant: the flag is looked at once per cycle of seq only.
FrameNeverCancelled(flag) == FALSE

\* if stop_event.is_set(): break
FrameCancelled(flag) == flag

\* The MQTT thread is in no other handler call.
TransportFree == partyPc = "idle" /\ devPc["transport"] = "idle"

\* _start_party_mode() is called.
StartCall ==
    /\ connected
    /\ TransportFree
    /\ partyCmds < MaxPartyCmds
    /\ partyPc' = "start_lock"
    /\ partyResult' = "none"
    /\ partyCmds' = partyCmds + 1
    /\ UNCHANGED << partyLock, partyThread, alive, stopEvent >>
    /\ UNCHANGED workerVars
    /\ UNCHANGED << registry, setLocals >>
    /\ UNCHANGED aroundParty

\* with self._party_lock:
StartAcquire ==
    /\ partyPc = "start_lock"
    /\ partyLock = "free"
    /\ partyLock' = "transport"
    /\ partyPc' = "start_alive"
    /\ UNCHANGED << partyThread, alive, stopEvent, partyResult, partyCmds >>
    /\ UNCHANGED workerVars
    /\ UNCHANGED << registry, setLocals >>
    /\ UNCHANGED aroundParty

\* if self._party_thread and self._party_thread.is_alive(): return
StartAlive ==
    /\ partyPc = "start_alive"
    /\ IF WorkerAlive
          THEN /\ partyPc' = "idle"
               /\ partyResult' = "noop"
               /\ partyLock' = "free"
          ELSE /\ partyPc' = "start_states"
               /\ UNCHANGED << partyResult, partyLock >>
    /\ UNCHANGED << partyThread, alive, stopEvent, partyCmds >>
    /\ UNCHANGED workerVars
    /\ UNCHANGED << registry, setLocals >>
    /\ UNCHANGED aroundParty

\* states = self._current_actuator_states(); return if a LED is not 'off'
StartStates ==
    /\ partyPc = "start_states"
    /\ IF LedsOff(states)
          THEN /\ partyPc' = "start_clear"
               /\ UNCHANGED << partyResult, partyLock >>
          ELSE /\ partyPc' = "idle"
               /\ partyResult' = "refused"
               /\ partyLock' = "free"
    /\ UNCHANGED << partyThread, alive, stopEvent, partyCmds >>
    /\ UNCHANGED workerVars
    /\ UNCHANGED << registry, setLocals >>
    /\ UNCHANGED aroundParty

\* self._party_stop_event.clear()
StartClear ==
    /\ partyPc = "start_clear"
    /\ stopEvent' = FALSE
    /\ partyPc' = "start_spawn"
    /\ UNCHANGED << partyLock, partyThread, alive, partyResult, partyCmds >>
    /\ UNCHANGED workerVars
    /\ UNCHANGED << registry, setLocals >>
    /\ UNCHANGED aroundParty

\* t.start(); self._party_thread = t
StartSpawn ==
    /\ partyPc = "start_spawn"
    /\ workerPc' = "while"
    /\ frame' = 1
    /\ led' = 1
    /\ alive' = alive + 1
    /\ partyThread' = TRUE
    /\ partyPc' = "start_log"
    /\ UNCHANGED << partyLock, stopEvent, partyResult, partyCmds >>
    /\ UNCHANGED << registry, setLocals >>
    /\ UNCHANGED aroundParty

\* self._write_log_entry(event_type='party_mode_on'); the lock is released.
StartLog ==
    /\ partyPc = "start_log"
    /\ logEntries' = logEntries + 1
    /\ partyLock' = "free"
    /\ partyResult' = "started"
    /\ partyPc' = "idle"
    /\ UNCHANGED << partyThread, alive, stopEvent, partyCmds >>
    /\ UNCHANGED workerVars
    /\ UNCHANGED << registry, devPc, devArg, device, seen, devResult, devWrites,
                    devCalls >>
    /\ logOpen' = TRUE
    /\ UNCHANGED lifeButLog
    /\ UNCHANGED << dbVars, logVars, sampleVars, modeVars, pulseVars, routeVars, joinTimedOut >>

\* _stop_party_mode() is called.
StopCall ==
    /\ connected
    /\ TransportFree
    /\ partyCmds < MaxPartyCmds
    /\ partyPc' = "stop_lock"
    /\ partyResult' = "none"
    /\ partyCmds' = partyCmds + 1
    /\ UNCHANGED << partyLock, partyThread, alive, stopEvent >>
    /\ UNCHANGED workerVars
    /\ UNCHANGED << registry, setLocals >>
    /\ UNCHANGED aroundParty

\* with self._party_lock:
StopAcquire ==
    /\ partyPc = "stop_lock"
    /\ partyLock = "free"
    /\ partyLock' = "transport"
    /\ partyPc' = "stop_alive"
    /\ UNCHANGED << partyThread, alive, stopEvent, partyResult, partyCmds >>
    /\ UNCHANGED workerVars
    /\ UNCHANGED << registry, setLocals >>
    /\ UNCHANGED aroundParty

\* if not (self._party_thread and self._party_thread.is_alive()): return
StopAlive ==
    /\ partyPc = "stop_alive"
    /\ IF WorkerAlive
          THEN /\ partyPc' = "stop_set"
               /\ UNCHANGED << partyResult, partyLock >>
          ELSE /\ partyPc' = "idle"
               /\ partyResult' = "noop"
               /\ partyLock' = "free"
    /\ UNCHANGED << partyThread, alive, stopEvent, partyCmds >>
    /\ UNCHANGED workerVars
    /\ UNCHANGED << registry, setLocals >>
    /\ UNCHANGED aroundParty

\* self._party_stop_event.set()
StopSet ==
    /\ partyPc = "stop_set"
    /\ stopEvent' = TRUE
    /\ partyPc' = "join"
    /\ UNCHANGED << partyLock, partyThread, alive, partyResult, partyCmds >>
    /\ UNCHANGED workerVars
    /\ UNCHANGED << registry, setLocals >>
    /\ UNCHANGED aroundParty

\* self._party_thread.join(timeout=5) returns: the thread has ended, or the
\* 5 s are over.
StopJoin ==
    /\ partyPc = "join"
    /\ partyResult' = IF workerPc = "exited" THEN "stopped" ELSE "timeout"
    /\ joinTimedOut' = (joinTimedOut \/ workerPc # "exited")
    /\ partyPc' = "stop_log"
    /\ UNCHANGED << partyLock, partyThread, alive, stopEvent, partyCmds >>
    /\ UNCHANGED workerVars
    /\ UNCHANGED << registry, setLocals >>
    /\ UNCHANGED << dbVars, logVars, sampleVars, modeVars, pulseVars, routeVars, lifeVars >>

\* self._write_log_entry(event_type='party_mode_off'); the lock is released.
StopLog ==
    /\ partyPc = "stop_log"
    /\ logEntries' = logEntries + 1
    /\ partyLock' = "free"
    /\ partyPc' = "idle"
    /\ UNCHANGED << partyThread, alive, stopEvent, partyResult, partyCmds >>
    /\ UNCHANGED workerVars
    /\ UNCHANGED << registry, devPc, devArg, device, seen, devResult, devWrites,
                    devCalls >>
    /\ logOpen' = TRUE
    /\ UNCHANGED lifeButLog
    /\ UNCHANGED << dbVars, logVars, sampleVars, modeVars, pulseVars, routeVars, joinTimedOut >>

\* The worker calls set_device_state(name, on).
WorkerCalls(name, on) ==
    /\ devPc["party"] = "idle"
    /\ devArg' = [devArg EXCEPT !["party"] = [name |-> name, on |-> on]]
    /\ device' = [device EXCEPT !["party"] = lower(name)]
    /\ seen' = [seen EXCEPT !["party"] = "none"]
    /\ devResult' = [devResult EXCEPT !["party"] = "none"]
    /\ devWrites' = [devWrites EXCEPT !["party"] = 0]
    /\ devPc' = [devPc EXCEPT !["party"] = "check"]
    /\ UNCHANGED << registry, logEntries, devCalls >>

\* while not stop_event.is_set(): the for loop over seq is entered, or the
\* loop is left for the finally block.
WorkerWhile ==
    /\ workerPc = "while"
    /\ IF stopEvent
          THEN workerPc' = "finally" /\ frame' = frame
          ELSE workerPc' = "frame" /\ frame' = 1
    /\ led' = 1
    /\ UNCHANGED << partyLock, partyThread, alive, stopEvent >>
    /\ UNCHANGED callerVars
    /\ UNCHANGED << registry, setLocals >>
    /\ UNCHANGED aroundParty

\* for leds, delay in seq: if stop_event.is_set(): break
WorkerFrame ==
    /\ workerPc = "frame"
    /\ workerPc' = IF FrameCancelled(stopEvent) THEN "while" ELSE "apply"
    /\ led' = 1
    /\ UNCHANGED frame
    /\ UNCHANGED << partyLock, partyThread, alive, stopEvent >>
    /\ UNCHANGED callerVars
    /\ UNCHANGED << registry, setLocals >>
    /\ UNCHANGED aroundParty

\* self.device_controller.set_device_state(name, name in leds)
WorkerApply ==
    /\ workerPc = "apply"
    /\ WorkerCalls(LedOrder[led], LedOrder[led] \in PartyFrames[frame].leds)
    /\ workerPc' = "applying"
    /\ UNCHANGED << frame, led >>
    /\ UNCHANGED << partyLock, partyThread, alive, stopEvent >>
    /\ UNCHANGED callerVars
    /\ UNCHANGED aroundParty

\* The call has returned: the next LED, or time.sleep(delay) after the
\* third; an exception goes to the handler of line 325 and on to finally.
WorkerApplied ==
    /\ workerPc = "applying"
    /\ devPc["party"] = "idle"
    /\ IF devResult["party"] = "Exception"
          THEN workerPc' = "finally" /\ led' = 1
          ELSE IF led < Len(LedOrder)
                  THEN workerPc' = "apply" /\ led' = led + 1
                  ELSE workerPc' = "hold" /\ led' = led
    /\ UNCHANGED frame
    /\ UNCHANGED << partyLock, partyThread, alive, stopEvent >>
    /\ UNCHANGED callerVars
    /\ UNCHANGED << registry, setLocals >>
    /\ UNCHANGED aroundParty

\* time.sleep(delay) returns: the next frame of seq, or the while test after
\* the last.
WorkerHold ==
    /\ workerPc = "hold"
    /\ IF frame < Len(PartyFrames)
          THEN workerPc' = "frame" /\ frame' = frame + 1
          ELSE workerPc' = "while" /\ frame' = frame
    /\ led' = 1
    /\ UNCHANGED << partyLock, partyThread, alive, stopEvent >>
    /\ UNCHANGED callerVars
    /\ UNCHANGED << registry, setLocals >>
    /\ UNCHANGED aroundParty

\* finally: self.device_controller.set_device_state(name, False)
WorkerFinally ==
    /\ workerPc = "finally"
    /\ WorkerCalls(LedOrder[led], FALSE)
    /\ workerPc' = "finalising"
    /\ UNCHANGED << frame, led >>
    /\ UNCHANGED << partyLock, partyThread, alive, stopEvent >>
    /\ UNCHANGED callerVars
    /\ UNCHANGED aroundParty

\* The call has returned or raised (except Exception: pass): the next LED,
\* or the thread ends after the third.
WorkerFinalised ==
    /\ workerPc = "finalising"
    /\ devPc["party"] = "idle"
    /\ IF led < Len(LedOrder)
          THEN /\ workerPc' = "finally"
               /\ led' = led + 1
               /\ UNCHANGED alive
          ELSE /\ workerPc' = "exited"
               /\ led' = led
               /\ alive' = alive - 1
    /\ UNCHANGED frame
    /\ UNCHANGED << partyLock, partyThread, stopEvent >>
    /\ UNCHANGED callerVars
    /\ UNCHANGED << registry, setLocals >>
    /\ UNCHANGED aroundParty

\* A remote command for a device, handled by the MQTT thread between two
\* party commands.
RemoteSetDevice ==
    /\ TransportFree
    /\ devCalls < MaxRemoteCalls
    /\ SetDeviceCall("transport")

WorkerStep ==
    \/ WorkerWhile
    \/ WorkerFrame
    \/ WorkerApply
    \/ WorkerApplied
    \/ WorkerHold
    \/ WorkerFinally
    \/ WorkerFinalised
    \/ SetDeviceCheck("party")
    \/ SetDeviceCompare("party")
    \/ SetDeviceLookup("party")
    \/ SetDeviceWrite("party")
    \/ SetDeviceCache("party")

PartyNext ==
    \/ StartCall
    \/ StartAcquire
    \/ StartAlive
    \/ StartStates
    \/ StartClear
    \/ StartSpawn
    \/ StartLog
    \/ StopCall
    \/ StopAcquire
    \/ StopAlive
    \/ StopSet
    \/ StopJoin
    \/ StopLog
    \/ RemoteSetDevice
    \/ SetDeviceCheck("transport")
    \/ SetDeviceCompare("transport")
    \/ SetDeviceLookup("transport")
    \/ SetDeviceWrite("transport")
    \/ SetDeviceCache("transport")
    \/ HandlerLog("transport")
    \/ WorkerStep

PartySpec == ModeInit /\ [][PartyNext]_vars

\* The scheduler runs the PartyMode thread and the MQTT thread.
PartyFairSpec ==
    /\ ModeInit
    /\ [][PartyNext]_vars
    /\ WF_vars(WorkerStep)

\* ---------------------------------------------------------------------
\* JeefHSApp.start and data_collection_loop: the main thread, the
\* JeefHSLoop thread, and beside them the MQTT thread handling party_mode
\* commands and the PartyMode thread.
\* ---------------------------------------------------------------------

aroundLife == << dbVars, logVars, sampleVars, modeVars, deviceVars, pulseVars, partyVars, routeVars >>

\* start(): self.running = True; the JeefHSLoop thread is started; the main
\* thread enters its wait loop.
AppStart ==
    /\ lifePc = "stopped"
    /\ loopPc = "none"
    /\ appRunning' = TRUE
    /\ loopPc' = "while"
    /\ lifePc' = "running"
    /\ UNCHANGED << logOpen, connected, ticks >>
    /\ UNCHANGED aroundLife

\* KeyboardInterrupt in the wait loop: the finally block is entered.
Interrupt ==
    /\ lifePc = "running"
    /\ lifePc' = "draining"
    /\ UNCHANGED << appRunning, loopPc, logOpen, connected, ticks >>
    /\ UNCHANGED aroundLife

\* self.running = False
StopRunning ==
    /\ lifePc = "draining"
    /\ appRunning' = FALSE
    /\ lifePc' = "join"
    /\ UNCHANGED << loopPc, logOpen, connected, ticks >>
    /\ UNCHANGED aroundLife

\* data_thread.join(timeout=10) returns: the thread has ended or the 10 s
\* are over.
JoinLoop ==
    /\ lifePc = "join"
    /\ joinTimedOut' = (joinTimedOut \/ loopPc # "done")
    /\ lifePc' = "db_close"
    /\ UNCHANGED << appRunning, loopPc, logOpen, connected, ticks >>
    /\ UNCHANGED << partyLock, partyThread, alive, stopEvent, partyResult, partyCmds >>
    /\ UNCHANGED workerVars
    /\ UNCHANGED << partyPc, dbVars, logVars, sampleVars, modeVars, deviceVars, pulseVars, routeVars >>

\* self.db.close()
DbClose ==
    /\ lifePc = "db_close"
    /\ Close

DbCloseJoin ==
    /\ lifePc = "db_close"
    /\ CloseJoin

\* self.security_data.close(), after db.close() has returned.
SecurityClose ==
    /\ lifePc = "db_close"
    /\ closePc = "returned"
    /\ lifePc' = "cleanup"
    /\ UNCHANGED << appRunning, loopPc, logOpen, connected, ticks >>
    /\ UNCHANGED aroundLife

\* self.device_controller.cleanup()
ControllerCleanup ==
    /\ lifePc = "cleanup"
    /\ Cleanup

\* self.mqtt_agent.close(): loop_stop() joins the network thread, which
\* ends after the callback it is in; disconnect(). start() returns.
MqttClose ==
    /\ lifePc = "cleanup"
    /\ outputs = {}
    /\ TransportFree
    /\ connected' = FALSE
    /\ lifePc' = "stopped"
    /\ UNCHANGED << appRunning, loopPc, logOpen, ticks >>
    /\ UNCHANGED aroundLife

\* while self.running:
LoopTest ==
    /\ loopPc = "while"
    /\ appRunning => ticks < MaxTicks
    /\ loopPc' = IF appRunning THEN "tick" ELSE "finally"
    /\ UNCHANGED << lifePc, appRunning, logOpen, connected, ticks >>
    /\ UNCHANGED aroundLife

\* One iteration of the loop body: a motion event is written to the log,
\* which _ensure_log_file opens if there is no handle.
LoopTick ==
    /\ loopPc = "tick"
    /\ \E motion \in BOOLEAN : logOpen' = (motion \/ logOpen)
    /\ ticks' = ticks + 1
    /\ loopPc' = "while"
    /\ UNCHANGED << lifePc, appRunning, connected >>
    /\ UNCHANGED aroundLife

\* finally: the log handle is flushed, synced, closed and set to None.
LoopFinally ==
    /\ loopPc = "finally"
    /\ logOpen' = FALSE
    /\ loopPc' = "done"
    /\ UNCHANGED << lifePc, appRunning, connected, ticks >>
    /\ UNCHANGED aroundLife

LifecycleNext ==
    \/ AppStart
    \/ Interrupt
    \/ StopRunning
    \/ JoinLoop
    \/ DbClose
    \/ DbCloseJoin
    \/ SecurityClose
    \/ ControllerCleanup
    \/ MqttClose
    \/ LoopTest
    \/ LoopTick
    \/ LoopFinally
    \/ StartCall
    \/ StartAcquire
    \/ StartAlive
    \/ StartStates
    \/ StartClear
    \/ StartSpawn
    \/ StartLog
    \/ StopCall
    \/ StopAcquire
    \/ StopAlive
    \/ StopSet
    \/ StopJoin
    \/ StopLog
    \/ WorkerStep

LifecycleSpec == ModeInit /\ [][LifecycleNext]_vars

\* ---------------------------------------------------------------------
\* MQTT_communicator.on_mqtt_message and the two handlers of JeefHSApp it
\* calls, on the MQTT network thread.
\* ---------------------------------------------------------------------

modeName == << "m", "o", "d", "e" >>

party_mode == << "p", "a", "r", "t", "y", "_", "m", "o", "d", "e" >>

\* CONTROL_FEEDS of the configuration, inverted: feed key to device name.
\* One device is configured under the name BUZZER.
FeedToDevice ==
    [ key \in { "mode-set", "party", "buzz", "fan-set", "red", "BUZZ" } |->
        CASE key = "mode-set" -> modeName
          [] key = "party" -> party_mode
          [] key = "buzz" -> buzzer
          [] key = "fan-set" -> fan
          [] key = "red" -> red_led
          [] key = "BUZZ" -> upper(buzzer) ]

\* self._feed_to_device.get(feed_key) found nothing.
NoDevice == << >>

\* Payloads as sent, before decode and strip.
Payloads ==
    { << "O", "N" >>,
      << " ", "o", "n", "\n" >>,
      << "O", "F", "F" >>,
      << "a", "w", "a", "y" >> }

\* The messages delivered: text payloads on the six control feeds and on a
\* feed that is not tracked, and one payload that is not UTF-8.
Messages ==
    { [topic |-> << "user", "feeds", k >>, payload |-> p, text |-> TRUE] :
         k \in DOMAIN FeedToDevice \cup { "other" }, p \in Payloads }
    \cup { [topic |-> << "user", "feeds", "fan-set" >>, payload |-> << >>, text |-> FALSE] }

\* message.payload.decode("utf-8").strip()
Payload(m) == strip(m.payload)

\* message.topic.split("/")[-1]
FeedKey(m) == m.topic[Len(m.topic)]

\* self._feed_to_device.get(feed_key)
Target(m) ==
    IF FeedKey(m) \in DOMAIN FeedToDevice THEN FeedToDevice[FeedKey(m)] ELSE NoDevice

OnWords == { << "O", "N" >>, << "1" >>, << "T", "R", "U", "E" >>, << "H", "I", "G", "H" >> }

\* payload.upper() in {"ON", "1", "TRUE", "HIGH"}
DesiredState(p) == upper(p) \in OnWords

\* Variant: every device command is a set_device_state call.
HandleAsSetState(name, on) == "set_device_state"

\* _handle_remote_device_state: what it calls for device_name and new_state.
HandleRemoteDeviceState(name, on) ==
    CASE name = party_mode -> IF on THEN "start" ELSE "stop"
      [] name = buzzer -> IF on THEN "pulse" ELSE "none"
      [] OTHER -> "set_device_state"

\* Variant: the handler calls are not wrapped in try/except.
NothingCaught(e) == FALSE

\* "except ValueError" and "except Exception" around the handler calls.
Caught(e) == e \in {"ValueError", "Exception", "OverflowError"}

\* The MQTT thread is in no callback and in no call.
Quiet ==
    /\ mqPc = "idle"
    /\ mmPc["transport"] = "idle"
    /\ devPc["transport"] = "idle"
    /\ pulsePc["transport"] = "idle"
    /\ partyPc = "idle"

\* The network loop calls on_mqtt_message with message m.
Arrives(m) ==
    /\ connected
    /\ Quiet
    /\ delivered < MaxMessages
    /\ msg' = m
    /\ delivered' = delivered + 1

\* The handler call made for msg', added to the calls made so far.
Routes(h, m) ==
    routed' = Append(routed, [handler |-> h, name |-> Target(m), arg |-> Payload(m)])

\* UnicodeDecodeError: the payload is dropped.
MessageDropped ==
    /\ \E m \in Messages :
          /\ Arrives(m)
          /\ ~m.text
    /\ mqResult' = "dropped"
    /\ UNCHANGED << mqPc, routed >>
    /\ UNCHANGED << dbVars, logVars, sampleVars, modeVars, deviceVars, pulseVars, partyVars, lifeVars >>

\* device_or_mode is None: the message is ignored.
MessageIgnored ==
    /\ \E m \in Messages :
          /\ Arrives(m)
          /\ m.text
          /\ Target(m) = NoDevice
    /\ mqResult' = "ignored"
    /\ UNCHANGED << mqPc, routed >>
    /\ UNCHANGED << dbVars, logVars, sampleVars, modeVars, deviceVars, pulseVars, partyVars, lifeVars >>

\* device_or_mode == "mode": self._on_set_mode(payload), which calls
\* mode_manager.set_mode(requested_mode).
RouteMode ==
    /\ \E m \in Messages :
          /\ Arrives(m)
          /\ m.text
          /\ Target(m) = modeName
          /\ Routes("set_mode", m)
          /\ mmArg' = [mmArg EXCEPT !["transport"] =
                          [op |-> "set_mode", arg |-> Payload(m), listener |-> "none"]]
    /\ mqPc' = "set_mode"
    /\ mqResult' = "none"
    /\ mmCalls' = mmCalls + 1
    /\ mmPc' = [mmPc EXCEPT !["transport"] = "normalise"]
    /\ mmResult' = [mmResult EXCEPT !["transport"] = "none"]
    /\ invoked' = [invoked EXCEPT !["transport"] = << >>]
    /\ commitOf' = [commitOf EXCEPT !["transport"] = 0]
    /\ got' = [got EXCEPT !["transport"] = << >>]
    /\ UNCHANGED << mode, callbacks, lock, commits >>
    /\ UNCHANGED mmLocals
    /\ UNCHANGED << dbVars, logVars, sampleVars, deviceVars, pulseVars, partyVars, lifeVars >>

\* A message for a device: text, on a tracked feed other than the mode's.
ForDevice(m) ==
    /\ m.text
    /\ Target(m) \notin {NoDevice, modeName}

\* device_name == 'party_mode' and new_state: self._start_party_mode()
RouteStart ==
    /\ \E m \in Messages :
          /\ Arrives(m)
          /\ ForDevice(m)
          /\ HandleRemoteDeviceState(Target(m), DesiredState(Payload(m))) = "start"
          /\ Routes("start", m)
    /\ mqPc' = "party"
    /\ mqResult' = "none"
    /\ partyPc' = "start_lock"
    /\ partyResult' = "none"
    /\ partyCmds' = partyCmds + 1
    /\ UNCHANGED << partyLock, partyThread, alive, stopEvent, joinTimedOut >>
    /\ UNCHANGED workerVars
    /\ UNCHANGED << dbVars, logVars, sampleVars, modeVars, deviceVars, pulseVars, lifeVars >>

\* device_name == 'party_mode' and not new_state: self._stop_party_mode()
RouteStop ==
    /\ \E m \in Messages :
          /\ Arrives(m)
          /\ ForDevice(m)
          /\ HandleRemoteDeviceState(Target(m), DesiredState(Payload(m))) = "stop"
          /\ Routes("stop", m)
    /\ mqPc' = "party"
    /\ mqResult' = "none"
    /\ partyPc' = "stop_lock"
    /\ partyResult' = "none"
    /\ partyCmds' = partyCmds + 1
    /\ UNCHANGED << partyLock, partyThread, alive, stopEvent, joinTimedOut >>
    /\ UNCHANGED workerVars
    /\ UNCHANGED << dbVars, logVars, sampleVars, modeVars, deviceVars, pulseVars, lifeVars >>

\* device_name == 'buzzer' and new_state: self.device_controller.pulse_buzzer()
RoutePulse ==
    /\ \E m \in Messages :
          /\ Arrives(m)
          /\ ForDevice(m)
          /\ HandleRemoteDeviceState(Target(m), DesiredState(Payload(m))) = "pulse"
          /\ Routes("pulse", m)
    /\ mqPc' = "pulse"
    /\ mqResult' = "none"
    /\ pulseArg' = [pulseArg EXCEPT !["transport"] = NoDuration]
    /\ held' = [held EXCEPT !["transport"] = 0]
    /\ pulseResult' = [pulseResult EXCEPT !["transport"] = "none"]
    /\ pulsePc' = [pulsePc EXCEPT !["transport"] = "lookup"]
    /\ pulseCalls' = pulseCalls + 1
    /\ UNCHANGED << dbVars, logVars, sampleVars, modeVars, deviceVars, partyVars, lifeVars >>

\* device_name == 'buzzer' and not new_state: return
RouteNone ==
    /\ \E m \in Messages :
          /\ Arrives(m)
          /\ ForDevice(m)
          /\ HandleRemoteDeviceState(Target(m), DesiredState(Payload(m))) = "none"
    /\ mqResult' = "returned"
    /\ UNCHANGED << mqPc, routed >>
    /\ UNCHANGED << dbVars, logVars, sampleVars, modeVars, deviceVars, pulseVars, partyVars, lifeVars >>

\* self.device_controller.set_device_state(device_name, new_state)
RouteSetDevice ==
    /\ \E m \in Messages :
          /\ Arrives(m)
          /\ ForDevice(m)
          /\ HandleRemoteDeviceState(Target(m), DesiredState(Payload(m))) = "set_device_state"
          /\ Routes("set_device_state", m)
          /\ devArg' = [devArg EXCEPT !["transport"] =
                           [name |-> Target(m), on |-> DesiredState(Payload(m))]]
          /\ device' = [device EXCEPT !["transport"] = lower(Target(m))]
    /\ mqPc' = "set_device_state"
    /\ mqResult' = "none"
    /\ seen' = [seen EXCEPT !["transport"] = "none"]
    /\ devResult' = [devResult EXCEPT !["transport"] = "none"]
    /\ devWrites' = [devWrites EXCEPT !["transport"] = 0]
    /\ devPc' = [devPc EXCEPT !["transport"] = "check"]
    /\ devCalls' = devCalls + 1
    /\ UNCHANGED << outputs, driver, states, logEntries >>
    /\ UNCHANGED << dbVars, logVars, sampleVars, modeVars, pulseVars, partyVars, lifeVars >>

\* The exception that leaves the handler called for the message, "none"
\* if it returned. _handle_remote_device_state catches what pulse_buzzer
\* raises itself.
Raised ==
    CASE mqPc = "set_mode" /\ mmResult["transport"] \in {"ValueError", "Exception"} ->
            mmResult["transport"]
      [] mqPc = "set_device_state" /\ devResult["transport"] = "Exception" -> "Exception"
      [] OTHER -> "none"

\* The handler call has ended.
HandlerEnded ==
    /\ mqPc # "idle"
    /\ mqPc # "crashed"
    /\ mmPc["transport"] = "idle"
    /\ devPc["transport"] = "idle"
    /\ pulsePc["transport"] = "idle"
    /\ partyPc = "idle"

\* The handler returns, or raises into the try block of on_mqtt_message.
\* After a pulse that returned, the handler writes its log entry; an
\* exception that no except clause catches leaves on_mqtt_message and ends
\* the network loop.
MessageHandled ==
    /\ HandlerEnded
    /\ mqResult' = CASE Raised = "none" -> "returned"
                      [] Caught(Raised) -> "caught"
                      [] OTHER -> "propagated"
    /\ mqPc' = IF Raised = "none" \/ Caught(Raised) THEN "idle" ELSE "crashed"
    /\ IF mqPc = "pulse" /\ pulseResult["transport"] \in {"returned", "ignored"}
          THEN logEntries' = logEntries + 1 /\ logOpen' = TRUE
          ELSE UNCHANGED << logEntries, logOpen >>
    /\ UNCHANGED << msg, routed, delivered >>
    /\ UNCHANGED << outputs, driver, states, devPc, devCalls >>
    /\ UNCHANGED devLocals
    /\ UNCHANGED lifeButLog
    /\ UNCHANGED << dbVars, logVars, sampleVars, modeVars, pulseVars, partyVars >>

TransportNext ==
    \/ MessageDropped
    \/ MessageIgnored
    \/ RouteMode
    \/ RouteStart
    \/ RouteStop
    \/ RoutePulse
    \/ RouteNone
    \/ RouteSetDevice
    \/ MessageHandled
    \/ SetModeNormalise("transport")
    \/ SetModeAcquire("transport")
    \/ SetModeCommit("transport")
    \/ CallbackBegin("transport")
    \/ CallbackEnd("transport")
    \/ SetModeReturn("transport")
    \/ SetDeviceCheck("transport")
    \/ SetDeviceCompare("transport")
    \/ SetDeviceLookup("transport")
    \/ SetDeviceWrite("transport")
    \/ SetDeviceCache("transport")
    \/ HandlerLog("transport")
    \/ PulseLookup("transport")
    \/ PulseCacheOn("transport")
    \/ PulseSetOn("transport")
    \/ PulseHold("transport")
    \/ PulseSetOff("transport")
    \/ PulseCacheOff("transport")
    \/ StartAcquire
    \/ StartAlive
    \/ StartStates
    \/ StartClear
    \/ StartSpawn
    \/ StartLog
    \/ StopAcquire
    \/ StopAlive
    \/ StopSet
    \/ StopJoin
    \/ StopLog
    \/ WorkerStep
    \/ Cleanup

\* JeefHSApp.__init__ has registered _on_mode_change with the ModeManager.
TransportInit ==
    /\ InitWith({ <<0, 0>> })
    /\ configured = FALSE
    /\ mode = Normalise(HOME).value
    /\ callbacks = << "on_mode_change" >>
    /\ lock = "free"
    /\ mmPc = [t \in ModeThreads |-> "idle"]
    /\ mmArg = [t \in ModeThreads |-> NoArg]
    /\ candidate = [t \in ModeThreads |-> << >>]
    /\ toCall = [t \in ModeThreads |-> << >>]
    /\ done = [t \in ModeThreads |-> 0]
    /\ mmResult = [t \in ModeThreads |-> "none"]
    /\ invoked = [t \in ModeThreads |-> << >>]
    /\ commits = 0
    /\ commitOf = [t \in ModeThreads |-> 0]
    /\ got = [t \in ModeThreads |-> << >>]
    /\ mmCalls = 0
    /\ DeviceInit
    /\ PulseInit
    /\ PartyInit
    /\ RouteInit
    /\ LifeInit
    /\ LogInit
    /\ SampleInit

TransportSpec == TransportInit /\ [][TransportNext]_vars

(***************************************************************************)
(* Properties of the buffer and of the sync task.                          *)
(***************************************************************************)
RemoteCount(k, id) == Len(remote[k][id])

Synced(table) == { i \in DOMAIN table : table[i].synced = 1 }

UnmarkedCount(k, id) == Cardinality({ j \in DOMAIN unmarked[k] : id \in unmarked[k][j] })

SetMin(S) == CHOOSE x \in S : \A y \in S : x <= y

\* The step is the successful end of the UPDATE of table k.
MarkStep(k) == syncPc = "mark" /\ syncing = k /\ syncPc' \notin {"mark", "abort"}

\* The step is a successful SELECT of the running _sync_* call.
FetchStep == syncPc = "fetch" /\ (syncPc' = "push" \/ (passes' # passes /\ syncPc' # "handler"))

\* C1, state part: a local row has synced=1 only if the remote table holds a
\* committed row pushed from it, carrying its payload and the device id.
C1_SyncedRowsAreRemote ==
    \A k \in Kinds : \A i \in DOMAIN local[k] :
        /\ local[k][i].synced = 1 => RemoteCount(k, i) >= 1
        /\ \A j \in DOMAIN remote[k][i] : remote[k][i][j] = RemoteRow(local[k][i])

\* C1, step part: the synced flags of a table change only in a mark step of
\* the sync thread on that table, which flips exactly the ids of the batch it
\* fetched and pushed, all at once, after the remote commit of that batch.
C1_MarkExactlyPushed ==
    \A k \in Kinds :
        Synced(local'[k]) # Synced(local[k]) =>
            /\ MarkStep(k)
            /\ Synced(local'[k]) \ Synced(local[k]) = Ids(rows)
            /\ Synced(local[k]) \subseteq Synced(local'[k])
            /\ pgTxn = << >>
            /\ \A id \in Ids(rows) : RemoteCount(k, id) >= 1

\* C1: synced=1 only after a committed remote transaction held the row; a
\* sync step marks exactly the ids it pushed, in one local transaction, after
\* the remote commit.
C1_SyncedOnlyAfterRemoteCommit ==
    [](C1_SyncedRowsAreRemote) /\ [][C1_MarkExactlyPushed]_vars

\* The measurements pass of a cycle has marked its batch: the rows are
\* synced and remote, tagged with the device id.
C1_Witness ==
    /\ syncing = "security_events"
    /\ Synced(local["measurements"]) # {}
    /\ \A i \in Synced(local["measurements"]) :
          remote["measurements"][i] = << [ts |-> local["measurements"][i].ts, device_id |-> "pi_01"] >>

\* C2, state part: no row of a batch whose push failed is synced before the
\* table is fetched and pushed again.
C2_FailedBatchUnsynced ==
    \A k \in Kinds : \A id \in failedBatch[k] :
        id \in DOMAIN local[k] /\ local[k][id].synced = 0

\* C2, step part: a failing push changes no local row, and the next fetch on
\* the table after a failed push starts at the oldest id of the failed batch
\* and contains the whole failed batch.
C2_RetryStartsAtSameId ==
    /\ (syncPc \in {"push", "commit"} /\ failures' # failures) => local' = local
    /\ (FetchStep /\ failedBatch[syncing] # {}) =>
          /\ rows' # << >>
          /\ rows'[1].id = SetMin(failedBatch[syncing])
          /\ failedBatch[syncing] \subseteq Ids(rows')

\* C2: a remote push that fails (connect, any insert, commit) marks no local
\* row, and the next cycle for the kind retries from the same oldest id.
C2_FailedPushRetried ==
    [](C2_FailedBatchUnsynced) /\ [][C2_RetryStartsAtSameId]_vars

\* A push failed and the batch was fetched again by a later cycle.
C2_Witness ==
    /\ syncPc = "push"
    /\ failedBatch[syncing] # {}
    /\ failedBatch[syncing] \subseteq Ids(rows)

\* C4: the remote table holds, for every local record, one row if it is
\* synced (or its batch is committed and about to be marked), plus one row
\* for every time a batch holding it was committed remotely and the local
\* mark that followed did not take effect; with no such failed mark it holds
\* exactly one row per synced record and none for an unsynced one.
C4_OneRemoteRowPerSyncedRecord ==
    \A k \in Kinds :
        LET marking == IF syncPc = "mark" /\ syncing = k THEN Range(ids_to_mark) ELSE {}
        IN  \A id \in 1..MaxId :
              RemoteCount(k, id) =
                  (IF id \in DOMAIN local[k] /\ local[k][id].synced = 1 THEN 1 ELSE 0)
                + (IF id \in marking THEN 1 ELSE 0)
                + UnmarkedCount(k, id)

\* A record is synced and has two remote rows: its batch was committed, the
\* mark failed, and a later cycle pushed and marked it again.
C4_Witness ==
    \E k \in Kinds : \E id \in Synced(local[k]) :
        RemoteCount(k, id) = 2 /\ UnmarkedCount(k, id) = 1

\* A successful fetch returns at most BatchSize rows, rows of the table being
\* synced as the table holds them, in ascending id order, and no unsynced row
\* older than one of them is left out.
C5_FetchStepOldestFirst ==
    FetchStep =>
        LET t == local[syncing]
            b == rows'
        IN  /\ Len(b) <= BatchSize
            /\ Len(b) = Min(BatchSize, Cardinality(Unsynced(t)))
            /\ \A i \in DOMAIN b : b[i].id \in Unsynced(t) /\ b[i] = t[b[i].id]
            /\ \A i \in DOMAIN b : \A j \in DOMAIN b : i < j => b[i].id < b[j].id
            /\ \A u \in Unsynced(t) : u \notin Ids(b) => \A m \in Ids(b) : m < u

Delivered(k) == \A id \in DOMAIN local[k] : RemoteCount(k, id) >= 1

\* C3: at-least-once delivery. With the remote store configured, the sync
\* thread scheduled and remote pushes failing only finitely often, every row
\* appended to the local buffer eventually has a remote row, unless close()
\* stops the sync task first: whenever a table holds a row without a remote
\* row, a state follows in which every row of the table has one.
C3_AtLeastOnceDelivery ==
    \A k \in Kinds :
        (~Delivered(k)) ~> (Delivered(k) \/ ~running \/ ~configured)

\* A row appended by the polling thread during the run has reached the
\* remote store after a fault was injected.
C3_Witness ==
    \E k \in Kinds :
        /\ Appended(k) > 0
        /\ failures > 0
        /\ Delivered(k)

\* C6: with the remote store reachable (no fault injected) and no append to
\* table k, the unsynced rows left after c completed passes on k are the N
\* rows it started with less c full batches: zero after ceil(N / BatchSize)
\* passes and not earlier; and the ids a pass is about to mark are the ids of
\* the batch it pushed.
C6_DrainInCeilPasses ==
    \A k \in Kinds :
        (failures = 0 /\ Appended(k) = 0) =>
            /\ Cardinality(Unsynced(local[k])) =
                  IF backlog0[k] > BatchSize * passes[k]
                  THEN backlog0[k] - BatchSize * passes[k]
                  ELSE 0
            /\ (syncPc = "mark" /\ syncing = k) => Range(ids_to_mark) = Ids(rows)

\* The largest backlog is drained, by the third pass.
C6_Witness ==
    /\ backlog0["measurements"] = MaxBacklog
    /\ failures = 0
    /\ Appended("measurements") = 0
    /\ passes["measurements"] = 3
    /\ Unsynced(local["measurements"]) = {}

\* C7, state part: every row of the batch in hand is a committed row of the
\* table, exactly as the table holds it; an INSERT still open is not in it.
C7_BatchIsCommittedRows ==
    syncPc \in {"push", "commit", "mark"} =>
        \A i \in DOMAIN rows :
            /\ rows[i].id \in DOMAIN local[syncing]
            /\ rows[i] = local[syncing][rows[i].id]

\* C7, step part: the mark flips exactly the ids that were read and pushed;
\* every other row, those appended since the fetch included, is left as it is.
C7_MarkLeavesOthers ==
    \A k \in Kinds :
        MarkStep(k) =>
            /\ Synced(local'[k]) \ Synced(local[k]) = Ids(rows)
            /\ Ids(rows) = Range(ids_to_mark)
            /\ \A id \in Ids(rows) : RemoteCount(k, id) >= 1
            /\ DOMAIN local'[k] = DOMAIN local[k]
            /\ \A id \in DOMAIN local[k] \ Ids(rows) : local'[k][id] = local[k][id]

\* C7: under any interleaving of appends with a sync cycle the ids marked are
\* the ids read and pushed; a row appended meanwhile is wholly in the batch or
\* left unsynced.
C7_AppendDuringCycle ==
    [](C7_BatchIsCommittedRows) /\ [][C7_MarkLeavesOthers]_vars

\* A row was appended to the table after the batch was fetched (the batch is
\* not full, yet the table holds a later unsynced row), and the batch has been
\* pushed and committed.
C7_Witness ==
    /\ syncPc = "mark"
    /\ Len(rows) < BatchSize
    /\ Len(local[syncing]) > rows[Len(rows)].id
    /\ local[syncing][Len(local[syncing])].synced = 0

\* C8: no failure inside a sync cycle ends the sync thread: it is never dead,
\* and whenever an exception is in flight, a new cycle starts later unless
\* close() has cleared the running flag.
C8_SyncTaskSurvives ==
    /\ [](syncPc # "dead")
    /\ (exc # "none") ~> (~running \/ (syncPc = "fetch" /\ syncing = "measurements"))

\* The local mark of a cycle failed (a local store error that only the loop
\* catches) and a new cycle has started.
C8_Witness ==
    /\ syncPc = "fetch"
    /\ syncing = "measurements"
    /\ unmarked["measurements"] # << >>

\* C9 as claimed: whenever the measurements pass of a cycle ends, whatever
\* way, the security pass of the same cycle is attempted; and no step of the
\* security pass changes the measurements table.
C9_KindsIndependent ==
    [][ /\ (syncing = "measurements" /\ syncing' # "measurements") =>
              (syncing' = "security_events" /\ syncPc' = "fetch")
        /\ (syncing = "security_events" /\ syncing' # "security_events") =>
              Synced(local["measurements"]) \subseteq Synced(local'["measurements"])
      ]_vars

\* The end of a log_environment / log_security call: one new unsynced row
\* carrying the sample, or the tables unchanged; the tick is at the step that
\* follows the call.
C10_AppendStep ==
    (prodPc \in {"log_environment", "log_security"} /\ prodPc' # prodPc) =>
        LET k == AppendKind(prodPc)
        IN  /\ prodPc' = AfterAppend(prodPc)
            /\ pending' = NoRow
            /\ \A o \in Kinds \ {k} : local'[o] = local[o]
            /\ \/ /\ lastAppend' = "ok"
                  /\ local'[k] = Append(local[k],
                        [id |-> Len(local[k]) + 1, ts |-> sample, synced |-> 0])
               \/ /\ lastAppend' = "failed"
                  /\ local'[k] = local[k]

\* C10: a log_environment / log_security call ends with exactly one new row,
\* unsynced, carrying the sample, or, if the local write failed, with the
\* tables unchanged; either way nothing is raised and the tick goes on with
\* the step that follows the call.
C10_AppendNeverRaises == [][C10_AppendStep]_vars

\* A local write failed and the tick is at the step after the call.
C10_Witness ==
    /\ lastAppend = "failed"
    /\ prodPc \in {"env_publish", "security_timer"}
    /\ \A k \in Kinds : Appended(k) = 0

\* The ids of a table strictly increase in append order.
C11_IdsIncrease ==
    \A k \in Kinds : \A i \in 1..(Len(local[k]) - 1) :
        local[k][i].id < local[k][i + 1].id

\* A step keeps every row with its id and payload, adds rows only at the end
\* with larger ids and synced=0, moves no synced flag from 1 to 0, and sets a
\* flag only in a step of the sync thread's UPDATE on that table, never in a
\* step of the polling thread.
C11_AppendOnlyStep ==
    \A k \in Kinds :
        local'[k] # local[k] =>
            /\ Len(local'[k]) >= Len(local[k])
            /\ \A i \in DOMAIN local[k] :
                  /\ local'[k][i].id = local[k][i].id
                  /\ local'[k][i].ts = local[k][i].ts
                  /\ local'[k][i].synced >= local[k][i].synced
            /\ \A i \in DOMAIN local'[k] \ DOMAIN local[k] :
                  /\ local'[k][i].synced = 0
                  /\ i > 1 => local'[k][i - 1].id < local'[k][i].id
            /\ Synced(local'[k]) # Synced(local[k]) =>
                  /\ syncPc = "mark" /\ syncing = k /\ syncPc' # syncPc
                  /\ prodPc' = prodPc /\ pending' = pending

\* C11: the local buffer is append-only: no step deletes a row or changes
\* its id or payload, ids strictly increase in append order, and a synced flag
\* changes only from 0 to 1 and only by the sync thread.
C11_AppendOnly == [](C11_IdsIncrease) /\ [][C11_AppendOnlyStep]_vars

\* A table holds a row the sync thread has marked and a later row the
\* polling thread appended during the run.
C11_Witness ==
    \E k \in Kinds :
        /\ Synced(local[k]) # {}
        /\ Appended(k) > 0
        /\ local[k][Len(local[k])].synced = 0

\* C12: once close() has cleared the running flag the sync thread starts no
\* new cycle and no new back-off sleep: from the loop test it only exits; it
\* ends after the cycle or sleep in progress, and stays ended; close() has
\* cleared the flag when it waits, and returns from the bounded join whether
\* or not the thread has ended.
C12_CloseStopsSync ==
    /\ [][ /\ (~running /\ syncPc = "loop") => syncPc' \in {"loop", "done"}
           /\ ~running => ~running'
           /\ syncPc = "done" => syncPc' = "done" ]_vars
    /\ [](closePc # "open" => ~running)
    /\ (~running) ~> (syncPc = "done")
    /\ (closePc = "join") ~> (closePc = "returned")

\* close() has returned while the cycle that was in progress is still at its
\* local mark.
C12_Witness ==
    /\ closePc = "returned"
    /\ ~running
    /\ syncPc = "mark"

(***************************************************************************)
(* Properties of the ModeManager.                                          *)
(***************************************************************************)
\* The listeners of the invocations of a set_mode call, in order.
InvokedListeners(t) == [ i \in DOMAIN invoked[t] |-> invoked[t][i].listener ]

\* Thread t is inside a listener called by set_mode.
InListener(t) == mmPc[t] = "callback"

\* The step is a get_mode call of thread u.
GetModeStep(u) == mmPc[u] = "idle" /\ mmPc'[u] = "idle" /\ got'[u] # got[u]

\* C13: the stored mode is always one of HOME, AWAY, NIGHT; it is HOME until
\* the first committed change; a value that is not a valid mode is never a
\* candidate that reaches the lock, and the mode changes only to the
\* candidate of the thread that holds the lock.
C13_ModeAlwaysValid ==
    /\ [](/\ mode \in VALID_MODES
          /\ commits = 0 => mode = HOME
          /\ \A t \in ModeThreads :
                mmPc[t] \in {"acquire", "locked"} => candidate[t] \in VALID_MODES)
    /\ [][ mode' # mode =>
             \E t \in ModeThreads :
                 /\ mmPc[t] = "locked"
                 /\ mode' = candidate[t]
                 /\ mode' \in VALID_MODES ]_vars

\* The mode was changed to NIGHT and a later request with an invalid value
\* was rejected.
C13_Witness ==
    /\ mode = NIGHT
    /\ \E t \in ModeThreads : mmResult[t] = "ValueError"

\* A string is a casing / whitespace variant of home, away or night.
IsModeVariant(str) == upper(strip(str)) \in VALID_MODES

\* C14 as claimed: set_mode goes on with the trimmed and upper-cased value
\* for every casing / whitespace variant of home, away, night, and for every
\* other string, the empty string and whitespace-only strings included, it
\* fails with the invalid-mode error, leaving the mode and calling no
\* listener.
C14_RejectsEveryOtherString ==
    [][ \A t \in ModeThreads :
          (mmPc[t] = "normalise" /\ mmPc'[t] # "normalise") =>
              IF IsModeVariant(mmArg[t].arg)
              THEN /\ mmPc'[t] = "acquire"
                   /\ candidate'[t] = upper(strip(mmArg[t].arg))
              ELSE /\ mmResult'[t] = "ValueError"
                   /\ mmPc'[t] = "idle"
                   /\ mode' = mode
                   /\ invoked' = invoked ]_vars

\* C15: a set_mode call whose candidate equals the current mode returns
\* False, leaves the mode as it is and calls no listener.
C15_SameModeIsNoOp ==
    /\ [][ \A t \in ModeThreads :
             (mmPc[t] = "locked" /\ candidate[t] = mode /\ mmPc'[t] # "locked") =>
                 /\ mmResult'[t] = "False"
                 /\ mmPc'[t] = "idle"
                 /\ mode' = mode
                 /\ invoked' = invoked ]_vars
    /\ [](\A t \in ModeThreads :
             mmResult[t] = "False" => (invoked[t] = << >> /\ commitOf[t] = 0))

\* With a listener registered and the mode changed to AWAY, a set_mode call
\* for the current mode returned False.
C15_Witness ==
    /\ mode = AWAY
    /\ callbacks # << >>
    /\ \E t \in ModeThreads : mmResult[t] = "False"

\* The number of invocations of listener l by the set_mode call of thread t.
TimesInvoked(t, l) ==
    Cardinality({ i \in DOMAIN invoked[t] : invoked[t][i].listener = l })

\* C16 as claimed: a set_mode call that changed the mode returns True after
\* it has called every registered listener exactly once with the new value,
\* in registration order, the new value being committed before the first
\* call.
C16_EveryListenerOnce ==
    /\ [][ \A t \in ModeThreads :
             (mmPc[t] = "notify" /\ mmPc'[t] = "idle") =>
                 /\ mmResult'[t] = "True"
                 /\ commitOf[t] > 0
                 /\ InvokedListeners(t) = toCall[t]
                 /\ \A i \in DOMAIN invoked[t] : invoked[t][i].value = candidate[t]
                 /\ \A l \in Range(toCall[t]) : TimesInvoked(t, l) = 1 ]_vars
    /\ [](\A t \in ModeThreads : invoked[t] # << >> => commitOf[t] > 0)

\* C17: a listener that raises does not end the loop: the next entry of the
\* list is called with the same value, the step that ends a listener changes
\* neither the mode nor the result, and the call returns True after as many
\* invocations as the list has entries; the mode is still the committed value
\* unless another call has committed since.
C17_ListenerFailureContained ==
    /\ [][ \A t \in ModeThreads :
             /\ (mmPc[t] = "callback" /\ mmPc'[t] # "callback") =>
                   /\ mmPc'[t] = "notify"
                   /\ done'[t] = done[t] + 1
                   /\ mode' = mode
                   /\ candidate'[t] = candidate[t]
                   /\ toCall'[t] = toCall[t]
             /\ (mmPc[t] = "notify" /\ mmPc'[t] = "idle") =>
                   /\ mmResult'[t] = "True"
                   /\ Len(invoked[t]) = Len(toCall[t]) ]_vars
    /\ [](\A t \in ModeThreads :
             (mmPc[t] \in {"notify", "callback"} /\ commits = commitOf[t]) =>
                 mode = candidate[t])

\* The first of two listeners raised, the second was called with the same
\* value and returned, the call returned True and the mode is the new value.
C17_Witness ==
    \E t \in ModeThreads :
        /\ mmResult[t] = "True"
        /\ Len(invoked[t]) = 2
        /\ invoked[t][1].outcome = "raised"
        /\ invoked[t][2].outcome = "returned"
        /\ invoked[t][2].value = invoked[t][1].value
        /\ mode = invoked[t][1].value

\* C18 as claimed: a get_mode call made while a listener is executing
\* returns the value that listener was called with.
C18_GetSeesListenerValue ==
    [][ \A t \in ModeThreads : \A u \in ModeThreads :
          (InListener(t) /\ GetModeStep(u)) => got'[u] = candidate[t] ]_vars

\* C18 amended: the thread that runs a listener does not hold the lock, the
\* mode was committed before the listener was called, and a get_mode call
\* made meanwhile returns the stored mode: the value the listener was called
\* with unless another set_mode call has committed a change since.
C18_GetSeesCommittedValue ==
    /\ [](\A t \in ModeThreads :
             InListener(t) =>
                 /\ lock # t
                 /\ commitOf[t] > 0
                 /\ commitOf[t] <= commits
                 /\ commits = commitOf[t] => mode = candidate[t])
    /\ [][ \A t \in ModeThreads : \A u \in ModeThreads :
             (InListener(t) /\ GetModeStep(u)) =>
                 /\ got'[u] = mode
                 /\ commits = commitOf[t] => got'[u] = candidate[t] ]_vars

\* While one thread is inside a listener called with AWAY, another thread
\* has read the mode and got AWAY.
C18_Witness ==
    \E t \in ModeThreads : \E u \in ModeThreads \ {t} :
        /\ InListener(t)
        /\ candidate[t] = AWAY
        /\ got[u] = AWAY
        /\ commits = commitOf[t]

\* C19 as claimed: the list of callbacks never holds a listener twice.
C19_NoDuplicateListeners ==
    \A i \in DOMAIN callbacks : \A j \in DOMAIN callbacks :
        i # j => callbacks[i] # callbacks[j]

\* The step ends a set_device_state call of thread t.
CallEnds(t) ==
    /\ devPc[t] \in {"check", "compare", "lookup", "write", "cache"}
    /\ devPc'[t] \in {"idle", "handler"}

\* The call of thread t was for a controllable device and asked for a state
\* other than the cached one it read.
WantsChange(t) ==
    /\ device[t] \in CONTROLLABLE_DEVICES
    /\ seen'[t] # "none"
    /\ seen'[t] # TargetState(devArg[t].on)

\* A call that returned False wrote nothing; only the last two steps of a
\* call that returns True write the driver and the cache; a log entry is
\* written only after a call that returned True.
FalseHasNoEffect ==
    /\ \A t \in DevThreads :
          (CallEnds(t) /\ devResult'[t] = "False") =>
              /\ devWrites[t] = 0
              /\ states' = states
              /\ driver' = driver
              /\ logEntries' = logEntries
    /\ driver' # driver =>
          \E t \in DevThreads : devPc[t] = "write" /\ devPc'[t] = "cache"
    /\ states' # states =>
          \E t \in DevThreads : devPc[t] = "cache" /\ devResult'[t] = "True"
    /\ logEntries' # logEntries =>
          devPc["transport"] = "handler" /\ devResult["transport"] = "True"

NoCallInProgress == \A t \in DevThreads : devPc[t] \in {"idle", "handler"}

\* C21 as claimed: calls on the registry take effect atomically, so whenever
\* no call is in progress the cached state of every device is the value
\* last written to its driver.
C21_CacheMatchesDriver ==
    NoCallInProgress =>
        \A d \in REQUIRED_DEVICES : states[d] = TargetState(driver[d])

\* The step ends a pulse_buzzer call of thread t that has switched the
\* buzzer.
PulseReturns(t) == pulsePc[t] = "cache_off" /\ pulsePc'[t] = "idle"

\* C22 as claimed: a pulse that completes leaves the buzzer off in driver
\* and cache whatever the duration argument, and the buzzer is on while the
\* call holds, for max(duration, 0.1 s).
C22_PulseEndsOff ==
    /\ [][ \A t \in PulseThreads :
             /\ PulseReturns(t) =>
                   /\ driver'[buzzer] = FALSE
                   /\ states'[buzzer] = "off"
                   /\ held[t] = Max(PulseFor(pulseArg[t]), MinHold)
             /\ (pulsePc[t] = "hold" /\ pulsePc'[t] = "set_off") =>
                   held'[t] = Max(PulseFor(pulseArg[t]), MinHold) ]_vars
    /\ [](\A t \in PulseThreads : pulsePc[t] = "hold" => driver[buzzer])

\* The step ends a pulse_buzzer call of thread t by a failure of the hold.
HoldFails(t) == pulsePc[t] = "hold" /\ pulsePc'[t] = "idle"

\* C23 as claimed: when the hold of a pulse fails, the buzzer is off in
\* driver and cache when the call raises.
C23_OffAfterFailedHold ==
    [][ \A t \in PulseThreads :
          HoldFails(t) => (driver'[buzzer] = FALSE /\ states'[buzzer] = "off") ]_vars

\* Output d is off in the driver and in the cache.
OutputOff(d) == ~driver[d] /\ states[d] = "off"

\* The step starts the PartyMode thread.
Launches == partyPc = "start_spawn" /\ partyPc' = "start_log"

\* The step is the return of a _start_party_mode call that found a LED on.
Refuses == partyPc = "start_states" /\ partyResult' = "refused"

\* C24 as claimed: start launches the animation only if the red, the green
\* and the blue LED are off at that moment; when one is on it refuses, and
\* no thread is started, the stop flag and every actuator state stay as
\* they are.
C24_StartOnlyWhenLedsOff ==
    [][ /\ (Launches /\ ~joinTimedOut) => \A l \in LEDS : OutputOff(l)
        /\ (partyPc = "start_states" /\ partyPc' # partyPc /\ ~LedsOff(states)) =>
              Refuses
        /\ Refuses =>
              /\ UNCHANGED << alive, partyThread, stopEvent, workerPc >>
              /\ UNCHANGED registry ]_vars

\* The step is taken by the MQTT thread inside a call that ends as a no-op.
NoOpStep ==
    /\ partyPc \in {"start_lock", "start_alive", "stop_lock", "stop_alive"}
    /\ partyPc' # partyPc
    /\ partyPc' \notin {"start_states", "stop_set"}

\* C25: at most one PartyMode thread is alive at any time; a start while it
\* is alive and a stop while none is alive return without starting a
\* thread and without touching the stop flag, the worker or an actuator.
C25_AtMostOneWorker ==
    /\ [](/\ alive \in {0, 1}
          /\ alive = 1 <=> WorkerAlive
          /\ partyPc \in {"start_states", "start_clear", "start_spawn"} => alive = 0)
    /\ [][ /\ (partyPc = "start_alive" /\ partyPc' # partyPc /\ WorkerAlive) =>
                 partyResult' = "noop"
           /\ (partyPc = "stop_alive" /\ partyPc' # partyPc /\ ~WorkerAlive) =>
                 partyResult' = "noop"
           /\ NoOpStep =>
                 /\ UNCHANGED << alive, partyThread, stopEvent, logEntries >>
                 /\ UNCHANGED workerVars
                 /\ UNCHANGED registry ]_vars

\* A start has returned as a no-op while the worker is in a frame, and
\* before it a stop had returned as a no-op: three calls, one log entry.
C25_Witness ==
    /\ partyResult = "noop"
    /\ partyPc = "idle"
    /\ WorkerAlive
    /\ alive = 1
    /\ workerPc = "hold"
    /\ partyCmds = 3
    /\ logEntries = 1

\* The step ends the PartyMode thread.
WorkerExits == workerPc # "exited" /\ workerPc' = "exited"

\* The step is the return of a _stop_party_mode call whose join saw the
\* thread end.
StopReturns == partyPc = "stop_log" /\ partyPc' = "idle" /\ partyResult = "stopped"

\* C26 as claimed: when the PartyMode thread ends, every LED is off; when
\* stop returns, every LED is off.
C26_LedsOffAfterParty ==
    [][ /\ (WorkerExits /\ ~joinTimedOut) => \A l \in LEDS : OutputOff(l)
        /\ (StopReturns /\ ~joinTimedOut) => \A l \in LEDS : OutputOff(l) ]_vars

\* C27: while the stop flag is raised the worker begins no frame: it
\* finishes the frame it is in and its hold, then leaves the loop, and the
\* thread ends; start clears the flag before it starts a thread, and a
\* thread begins with the first frame of seq.
C27_CancelWithinOneFrame ==
    /\ [][ /\ (stopEvent /\ workerPc = "frame") => workerPc' # "apply"
           /\ (stopEvent /\ workerPc = "while") => workerPc' # "frame"
           /\ (stopEvent /\ alive > 0) => stopEvent'
           /\ Launches => (~stopEvent /\ workerPc' = "while")
           /\ (workerPc = "while" /\ workerPc' = "frame") => frame' = 1 ]_vars
    /\ (stopEvent /\ alive > 0) ~> (alive = 0)

\* After start, stop and start again the worker is in the hold of the
\* first frame, with the red LED on and the flag cleared.
C27_Witness ==
    /\ partyCmds = 3
    /\ logEntries = 3
    /\ partyResult = "started"
    /\ ~stopEvent
    /\ workerPc = "hold"
    /\ frame = 1
    /\ driver[red_led]
    /\ states[red_led] = "on"

\* The states of the lifecycle.
Phase(pc) ==
    CASE pc = "stopped" -> "Stopped"
      [] pc = "running" -> "Running"
      [] OTHER -> "Draining"

\* start() has returned.
Stopped == lifePc = "stopped" /\ ~appRunning

\* C28 as claimed: the lifecycle goes Stopped, Running, Draining, Stopped
\* and makes no other transition; once shutdown is requested the polling
\* loop begins no iteration; and when Stopped is reached and no join has
\* timed out, the polling loop has ended, the log is closed, db.close() has returned, no PartyMode
\* thread is alive, no LED output is on and the MQTT client is
\* disconnected.
C28_ShutdownOrder ==
    /\ [][ /\ Phase(lifePc') # Phase(lifePc) =>
                 << Phase(lifePc), Phase(lifePc') >> \in
                     { << "Stopped", "Running" >>, << "Running", "Draining" >>,
                       << "Draining", "Stopped" >> }
           /\ (~appRunning /\ loopPc = "while") => loopPc' # "tick" ]_vars
    /\ []((Stopped /\ ~joinTimedOut) =>
              /\ loopPc = "done"
              /\ ~logOpen
              /\ ~running /\ closePc = "returned"
              /\ ~WorkerAlive
              /\ \A l \in LEDS \cap outputs : ~driver[l]
              /\ ~connected)

\* The MQTT thread calls nothing.
CallsNothing ==
    /\ mmPc'["transport"] = "idle"
    /\ devPc'["transport"] = "idle"
    /\ pulsePc'["transport"] = "idle"
    /\ partyPc' = "idle"

\* on_mqtt_message takes a message.
Takes == mqPc = "idle" /\ delivered' = delivered + 1

\* C29: no exception of a handler leaves on_mqtt_message: the callback
\* ends with the exception caught and the network thread goes on. While a
\* mode command with an invalid mode is handled the mode does not change,
\* and when its ValueError reaches on_mqtt_message the callback ends and
\* the thread is ready for the next message.
C29_HandlerErrorsContained ==
    /\ [](mqPc # "crashed" /\ mqResult # "propagated")
    /\ [][ /\ (mqPc = "set_mode" /\ ~Normalise(Payload(msg)).valid) => mode' = mode
           /\ (HandlerEnded /\ Raised # "none" /\ mqPc' # mqPc) =>
                 (mqPc' = "idle" /\ mqResult' = "caught") ]_vars

\* A mode command "ON" was rejected and the mode command "away" after it
\* has set the mode.
C29_Witness ==
    /\ Len(routed) = 2
    /\ routed[1].handler = "set_mode"
    /\ ~Normalise(routed[1].arg).valid
    /\ routed[2].handler = "set_mode"
    /\ mqPc = "idle"
    /\ mqResult = "returned"
    /\ mmResult["transport"] = "True"
    /\ mode = AWAY
    /\ commits = 1

\* C30: a message for party_mode makes the MQTT thread call start (on
\* requested) or stop and nothing else, and while that call runs the MQTT
\* thread makes no set_device_state and no pulse call; a message for
\* buzzer makes it call pulse_buzzer if on is requested and nothing
\* otherwise, never set_device_state; a message for any other device name
\* makes it call set_device_state with that name and the requested state;
\* a message on the mode feed makes it call set_mode with the payload; a
\* payload that is no text and a feed that is not tracked make it call
\* nothing.
C30_RoutingByName ==
    /\ [][ Takes =>
             LET name == Target(msg')
                 on == DesiredState(Payload(msg'))
             IN  /\ (~msg'.text \/ name = NoDevice) => CallsNothing
                 /\ (msg'.text /\ name = modeName) =>
                       /\ mmPc'["transport"] = "normalise"
                       /\ mmArg'["transport"].arg = Payload(msg')
                       /\ devPc'["transport"] = "idle"
                       /\ pulsePc'["transport"] = "idle"
                       /\ partyPc' = "idle"
                 /\ (msg'.text /\ name = party_mode) =>
                       /\ partyPc' = IF on THEN "start_lock" ELSE "stop_lock"
                       /\ mmPc'["transport"] = "idle"
                       /\ devPc'["transport"] = "idle"
                       /\ pulsePc'["transport"] = "idle"
                       /\ UNCHANGED registry
                 /\ (msg'.text /\ name = buzzer) =>
                       /\ pulsePc'["transport"] = IF on THEN "lookup" ELSE "idle"
                       /\ mmPc'["transport"] = "idle"
                       /\ devPc'["transport"] = "idle"
                       /\ partyPc' = "idle"
                 /\ (msg'.text /\ name \notin {NoDevice, modeName, party_mode, buzzer}) =>
                       /\ devPc'["transport"] = "check"
                       /\ devArg'["transport"] = [name |-> name, on |-> on]
                       /\ mmPc'["transport"] = "idle"
                       /\ pulsePc'["transport"] = "idle"
                       /\ partyPc' = "idle" ]_vars
    /\ [](/\ mqPc = "party" => (devPc["transport"] = "idle" /\ pulsePc["transport"] = "idle")
          /\ mqPc = "pulse" => devPc["transport"] = "idle"
          /\ mqPc = "set_device_state" => pulsePc["transport"] = "idle")

\* After a party_mode ON command, a buzzer ON command: the worker is
\* running and the MQTT thread is in the hold of the pulse.
C30_Witness ==
    /\ Len(routed) = 2
    /\ routed[1].handler = "start"
    /\ routed[2].handler = "pulse"
    /\ mqPc = "pulse"
    /\ pulsePc["transport"] = "set_off"
    /\ driver[buzzer]
    /\ WorkerAlive
    /\ devPc["transport"] = "idle"

\* Thread t calls a listener in this step.
Notifies(t) == mmPc[t] = "notify" /\ mmPc'[t] = "callback"

\* The set_mode call of thread u committed after that of thread t and has
\* called listener l already.
NotifiedLater(u, t, l) ==
    /\ commitOf[u] > commitOf[t]
    /\ \E i \in DOMAIN invoked[u] : invoked[u][i].listener = l

\* C36 as claimed: listeners are notified in commit order: a set_mode call
\* does not call a listener with its value after a call that committed
\* later has called that listener, so the last value a listener receives
\* is the stored mode once the calls have returned.
C36_NotifiedInCommitOrder ==
    [][ \A t \in ModeThreads : \A u \in ModeThreads \ {t} :
          Notifies(t) =>
              ~NotifiedLater(u, t, invoked'[t][Len(invoked'[t])].listener) ]_vars

\* Every pulse_buzzer call made so far has returned after its hold.
AllPulsesReturned ==
    /\ \A t \in PulseThreads : pulsePc[t] = "idle"
    /\ \E t \in PulseThreads : pulseResult[t] = "returned"
    /\ \A t \in PulseThreads : pulseResult[t] \in {"none", "returned"}

\* C37 as claimed: while any of the overlapping pulses is in its hold the
\* buzzer is on, and when all pulses have returned the buzzer is off in
\* driver and cache.
C37_OverlappingPulses ==
    /\ (\E t \in PulseThreads : pulsePc[t] = "hold") => driver[buzzer]
    /\ AllPulsesReturned => (~driver[buzzer] /\ states[buzzer] = "off")

\* The polling loop has run its finally block, which closed the log.
LoopClosedLog == loopPc = "done"

\* C38 as claimed: once the polling loop has closed the log, no step
\* reopens it, and no log handle is open when Stopped is reached.
C38_LogStaysClosed ==
    /\ [][ (LoopClosedLog /\ ~logOpen) => ~logOpen' ]_vars
    /\ []((Stopped /\ LoopClosedLog) => ~logOpen)

(***************************************************************************)
(* The daily log file: _write_log_entry and _ensure_log_file, one step per *)
(* statement, called by the polling thread and by the MQTT thread;         *)
(* _flush_log and the passing of midnight.                                 *)
(***************************************************************************)
handleVars == << logHandle, logFile, logDate, opened, needsFlush, pendingAge >>

writerVars == << wPc, wStamp, wSec, wEvent, wTag, lastEntry, written >>

timeVars == << today, sinceFlush >>

aroundLog == << dbVars, modeVars, deviceVars, extVars, sampleVars >>

\* Maximal number of entries in the log after the events of the threads'
\* own (the callers with a call counter are bounded by that counter).
MaxEntries == 4

\* _write_log_entry calls in progress.
InFlight == Cardinality({ t \in LogThreads : wPc[t] # "idle" })

\* _write_log_entry(event_type=event, security_data=...) is called by
\* thread t for its call tag: "sec" is the dict given or
\* self.last_security_data, and the timestamp is that of the last
\* environment sample, of the security sample or datetime.now() (lines
\* 236-239): its date is today or an earlier day.
WriteCall(t, event, sec, tag) ==
    /\ wPc[t] = "idle"
    /\ \E d \in 1..today : wStamp' = [wStamp EXCEPT ![t] = d]
    /\ wSec' = [wSec EXCEPT ![t] = sec]
    /\ wEvent' = [wEvent EXCEPT ![t] = event]
    /\ wTag' = [wTag EXCEPT ![t] = tag]
    /\ wPc' = [wPc EXCEPT ![t] = "acquire"]
    /\ UNCHANGED << logLock, lastEntry, written >>
    /\ UNCHANGED handleVars
    /\ UNCHANGED timeVars

\* Variant: _write_log_entry does not take the lock.
LogLockSkipped(t) == "free"

\* The owner of _log_lock inside "with self._log_lock".
LogLockTaken(t) == t

\* "with self._log_lock:" (line 240)
WriteAcquire(t) ==
    /\ wPc[t] = "acquire"
    /\ logLock = "free"
    /\ logLock' = LogLockTaken(t)
    /\ wPc' = [wPc EXCEPT ![t] = "ensure"]
    /\ UNCHANGED << wStamp, wSec, wEvent, wTag, lastEntry, written >>
    /\ UNCHANGED handleVars
    /\ UNCHANGED timeVars
    /\ UNCHANGED aroundLog

\* _ensure_log_file: "if self._log_date == date_str and self._log_handle
\* is not None: return", "if self._log_handle is not None:" (lines 208-211)
EnsureCheck(t) ==
    /\ wPc[t] = "ensure"
    /\ wPc' = [wPc EXCEPT ![t] =
                 IF logDate = wStamp[t] /\ logHandle # "none" THEN "entry"
                 ELSE IF logHandle # "none" THEN "close"
                 ELSE "open"]
    /\ UNCHANGED << logLock, wStamp, wSec, wEvent, wTag, lastEntry, written >>
    /\ UNCHANGED handleVars
    /\ UNCHANGED timeVars
    /\ UNCHANGED aroundLog

\* flush(), os.fsync(), close() of the old handle and _needs_flush = False
\* (lines 212-215); flush() of a closed file raises ValueError, which leaves
\* _write_log_entry.
EnsureClose(t) ==
    /\ wPc[t] = "close"
    /\ IF logHandle = "open"
       THEN /\ logHandle' = "closed"
            /\ opened' = opened - 1
            /\ needsFlush' = FALSE
            /\ pendingAge' = Durable
            /\ wPc' = [wPc EXCEPT ![t] = "open"]
            /\ UNCHANGED lastEntry
       ELSE /\ wPc' = [wPc EXCEPT ![t] = "release"]
            /\ lastEntry' = [lastEntry EXCEPT ![t] =
                                [NoEntry EXCEPT !.event = "ValueError"]]
            /\ UNCHANGED << logHandle, opened, needsFlush, pendingAge >>
    /\ UNCHANGED << logLock, logFile, logDate, wStamp, wSec, wEvent, wTag, written >>
    /\ UNCHANGED timeVars
    /\ UNCHANGED aroundLog

\* self._log_handle = open(log_path, 'a', ...) (lines 217-218)
EnsureOpen(t) ==
    /\ wPc[t] = "open"
    /\ logHandle' = "open"
    /\ logFile' = wStamp[t]
    /\ opened' = opened + 1
    /\ wPc' = [wPc EXCEPT ![t] = "date"]
    /\ UNCHANGED << logLock, logDate, needsFlush, pendingAge >>
    /\ UNCHANGED << wStamp, wSec, wEvent, wTag, lastEntry, written >>
    /\ UNCHANGED timeVars
    /\ UNCHANGED aroundLog

\* self._log_date = date_str (line 219)
EnsureDate(t) ==
    /\ wPc[t] = "date"
    /\ logDate' = wStamp[t]
    /\ wPc' = [wPc EXCEPT ![t] = "entry"]
    /\ UNCHANGED << logLock, logHandle, logFile, opened, needsFlush, pendingAge >>
    /\ UNCHANGED << wStamp, wSec, wEvent, wTag, lastEntry, written >>
    /\ UNCHANGED timeVars
    /\ UNCHANGED aroundLog

\* sec.get('mode') or self.mode_manager.get_mode() (line 243)
ModeValue(sec) == IF dictMode[sec] # << >> THEN dictMode[sec] ELSE mode

\* Lines 243-260: the entry is built, with the mode of "sec" or, if that
\* is empty, of get_mode(), which waits for the lock of the ModeManager;
\* the line is written to the handle and _needs_flush is set. The write to
\* a closed file raises ValueError.
WriteEntry(t) ==
    /\ wPc[t] = "entry"
    /\ dictMode[wSec[t]] = << >> => lock \in {"free", t}
    /\ IF logHandle = "open"
       THEN /\ lastEntry' = [lastEntry EXCEPT ![t] =
                                [stamp |-> wStamp[t], file |-> logFile,
                                 event |-> wEvent[t], mode |-> ModeValue(wSec[t])]]
            /\ written' = written + 1
            /\ needsFlush' = TRUE
            /\ pendingAge' = IF pendingAge = Durable THEN 0 ELSE pendingAge
       ELSE /\ lastEntry' = [lastEntry EXCEPT ![t] =
                                [NoEntry EXCEPT !.event = "ValueError"]]
            /\ UNCHANGED << written, needsFlush, pendingAge >>
    /\ wPc' = [wPc EXCEPT ![t] = "release"]
    /\ UNCHANGED << logLock, logHandle, logFile, logDate, opened >>
    /\ UNCHANGED << wStamp, wSec, wEvent, wTag >>
    /\ UNCHANGED timeVars
    /\ UNCHANGED aroundLog

\* The with block is left: the lock is released and the call returns.
WriteRelease(t) ==
    /\ wPc[t] = "release"
    /\ logLock' = IF logLock = t THEN "free" ELSE logLock
    /\ wPc' = [wPc EXCEPT ![t] = "idle"]
    /\ UNCHANGED << wStamp, wSec, wEvent, wTag, lastEntry, written >>
    /\ UNCHANGED handleVars
    /\ UNCHANGED timeVars
    /\ UNCHANGED aroundLog

\* The steps of _write_log_entry after the call.
WriteStep(t) ==
    \/ WriteAcquire(t)
    \/ EnsureCheck(t)
    \/ EnsureClose(t)
    \/ EnsureOpen(t)
    \/ EnsureDate(t)
    \/ WriteEntry(t)
    \/ WriteRelease(t)

\* Midnight passes.
Midnight ==
    /\ today < MaxDays
    /\ today' = today + 1
    /\ UNCHANGED << logLock, sinceFlush >>
    /\ UNCHANGED handleVars
    /\ UNCHANGED writerVars
    /\ UNCHANGED aroundLog

\* A thread writes an entry for an event of its own: the polling thread
\* for an environment sample, the MQTT thread for a device command.
LogEvent(t) ==
    /\ written + InFlight < MaxEntries
    /\ WriteCall(t, IF t = "polling" THEN "environmental" ELSE "device_fan",
                 lastSec, << "event", written >>)
    /\ UNCHANGED aroundLog

\* _flush_log (lines 262-268), called by the polling thread: under the
\* lock, flush() and os.fsync() of the handle, _needs_flush = False.
FlushLog ==
    /\ wPc["polling"] = "idle"
    /\ logLock = "free"
    /\ logHandle # "none"
    /\ needsFlush
    /\ needsFlush' = FALSE
    /\ pendingAge' = Durable
    /\ UNCHANGED << logLock, logHandle, logFile, logDate, opened >>
    /\ UNCHANGED writerVars
    /\ UNCHANGED timeVars
    /\ UNCHANGED aroundLog

LogNext ==
    \/ \E t \in LogThreads : LogEvent(t) \/ WriteStep(t)
    \/ Midnight
    \/ FlushLog

LogSpec == ModeInit /\ [][LogNext]_vars

\* An entry was written by thread t.
Wrote(t) == lastEntry[t].event \notin {"none", "ValueError"}

\* C31: every entry is in the file of the date of its own timestamp and
\* none was written to a closed handle; at most one handle is open, and a
\* handle is opened only when none is open, the old one flushed and closed.
C31_DailyFile ==
    /\ [](\A t \in LogThreads :
             /\ lastEntry[t].event # "ValueError"
             /\ Wrote(t) => lastEntry[t].file = lastEntry[t].stamp)
    /\ [](opened <= 1)
    /\ [][ opened' > opened => (opened = 0 /\ logHandle # "open" /\ pendingAge = Durable) ]_vars

\* The MQTT thread has written an entry of day 2 and, after it, the
\* polling thread one with a timestamp of day 1, each to the file of its
\* own date.
C31_Witness ==
    /\ lastEntry["transport"].stamp = 2
    /\ lastEntry["transport"].file = 2
    /\ lastEntry["polling"].stamp = 1
    /\ lastEntry["polling"].file = 1
    /\ logDate = 1
    /\ written = MaxEntries
    /\ opened = 1

(***************************************************************************)
(* The security sample of the polling thread: collect_security_data and    *)
(* security_module.get_security_data, one step per statement; the summary  *)
(* of the motion counter; and the listener _on_mode_change on the MQTT     *)
(* thread.                                                                 *)
(***************************************************************************)
aroundSample == << dbVars, logVars, modeVars, deviceVars, extVars >>

\* The call of _write_log_entry that belongs to the sample in progress, and
\* the one that belongs to the mode change the MQTT thread has committed.
SampleTag == << "sample", samples >>

ModeTag == << "mode", commitOf["transport"] >>

\* Variant: every mode but HOME lets a sample pulse the buzzer.
ModeNotHome(m) == upper(m) # HOME

\* _mode_allows_buzzer: mode.upper() == "AWAY"
ModeAllowsBuzzer(m) == upper(m) = AWAY

\* The security timer has fired: get_security_data() is called and reads the
\* PIR sensor (security_module.py lines 140-147).
SampleBegin ==

    /\ secPc = "idle"
    /\ samples < MaxSamples
    /\ samples' = samples + 1
    /\ \E m \in BOOLEAN :
          /\ motionDetected' = m
          /\ detections' = IF m THEN detections + 1 ELSE detections
    /\ buzzerTriggered' = FALSE
    /\ sampleMode' = << >>
    /\ pulseMark' = pulseCalls
    /\ secPc' = "read_mode"
    /\ UNCHANGED << dictMode, lastSec, secData, motionCount, reported,
                    summaries, enqueued, sampleLogs, counted, onPc, served >>
    /\ UNCHANGED aroundSample

\* The security timer has not fired in this tick (jeefHS.py line 169).
TimerQuiet ==

    /\ secPc = "idle"
    /\ secPc' = "summary"
    /\ UNCHANGED << motionDetected, sampleMode, buzzerTriggered, pulseMark,
                    dictMode, lastSec, secData, samples, motionCount,
                    detections, reported, summaries, enqueued, sampleLogs,
                    counted, onPc, served >>
    /\ UNCHANGED aroundSample

\* mode = (self._mode_getter() or "HOME").upper(): get_mode() waits for the
\* lock of the ModeManager. Without motion the dict is returned next; with
\* motion the image is captured, the buzzer is pulsed if the mode allows it
\* and the e-mail is sent (security_module.py lines 145-163).
SampleReadMode ==

    /\ secPc = "read_mode"
    /\ lock = "free"
    /\ sampleMode' = upper(mode)
    /\ secPc' = IF motionDetected /\ ModeAllowsBuzzer(upper(mode))
                THEN "pulse"
                ELSE "return"
    /\ UNCHANGED << motionDetected, buzzerTriggered, pulseMark, dictMode,
                    lastSec, secData, samples, motionCount, detections,
                    reported, summaries, enqueued, sampleLogs, counted, onPc,
                    served >>
    /\ UNCHANGED aroundSample

\* _pulse_buzzer calls self._buzzer_callback(), which is pulse_buzzer of
\* the device controller without a duration (security_module.py line 182).
SamplePulseCall ==
    /\ secPc = "pulse"
    /\ pulseCalls = pulseMark
    /\ PulseCall("polling")
    /\ pulseArg'["polling"] = NoDuration

\* _pulse_buzzer returns True when the callback has returned and False when
\* it raised (security_module.py lines 181-186).
SamplePulseReturn ==

    /\ secPc = "pulse"
    /\ pulseCalls > pulseMark
    /\ pulsePc["polling"] = "idle"
    /\ buzzerTriggered' = (pulseResult["polling"] \notin {"Exception", "OverflowError"})
    /\ secPc' = "return"
    /\ UNCHANGED << motionDetected, sampleMode, pulseMark, dictMode, lastSec,
                    secData, samples, motionCount, detections, reported,
                    summaries, enqueued, sampleLogs, counted, onPc, served >>
    /\ UNCHANGED aroundSample

\* get_security_data returns a new dict with the mode it read
\* (security_module.py lines 165-171).
SampleReturn ==

    /\ secPc = "return"
    /\ secData' = samples
    /\ dictMode' = [dictMode EXCEPT ![samples] = sampleMode]
    /\ secPc' = "store"
    /\ UNCHANGED << motionDetected, sampleMode, buzzerTriggered, pulseMark,
                    lastSec, samples, motionCount, detections, reported,
                    summaries, enqueued, sampleLogs, counted, onPc, served >>
    /\ UNCHANGED aroundSample

\* Variant: every sample is counted, logged and enqueued.
EverySample(m) == "count"

\* "if sec_data.get('motion_detected'):" (line 174)
AfterStore(m) == IF m THEN "count" ELSE "timer"

\* sec_data.setdefault('mode', self.mode_manager.get_mode()) evaluates
\* get_mode() and leaves the key, which is present; self.last_security_data =
\* sec_data (jeefHS.py lines 171-174).
SampleStore ==

    /\ secPc = "store"
    /\ lock = "free"
    /\ lastSec' = secData
    /\ secPc' = AfterStore(motionDetected)
    /\ UNCHANGED << motionDetected, sampleMode, buzzerTriggered, pulseMark,
                    dictMode, secData, samples, motionCount, detections,
                    reported, summaries, enqueued, sampleLogs, counted, onPc,
                    served >>
    /\ UNCHANGED aroundSample

\* security_counts['motion'] += 1 (line 175)
SampleCount ==

    /\ secPc = "count"
    /\ motionCount' = motionCount + 1
    /\ counted' = counted + 1
    /\ secPc' = "write_log"
    /\ UNCHANGED << motionDetected, sampleMode, buzzerTriggered, pulseMark,
                    dictMode, lastSec, secData, samples, detections, reported,
                    summaries, enqueued, sampleLogs, onPc, served >>
    /\ UNCHANGED aroundSample

\* self._write_log_entry(event_type='motion', security_data=sec_data)
\* (line 179)
SampleLogCall ==
    /\ secPc = "write_log"
    /\ wTag["polling"] # SampleTag
    /\ WriteCall("polling", "motion", secData, SampleTag)
    /\ UNCHANGED aroundLog

\* _write_log_entry has returned.
SampleLogReturn ==

    /\ secPc = "write_log"
    /\ wTag["polling"] = SampleTag
    /\ wPc["polling"] = "idle"
    /\ sampleLogs' = IF Wrote("polling") THEN sampleLogs + 1 ELSE sampleLogs
    /\ secPc' = "log_security"
    /\ UNCHANGED << motionDetected, sampleMode, buzzerTriggered, pulseMark,
                    dictMode, lastSec, secData, samples, motionCount,
                    detections, reported, summaries, enqueued, counted, onPc,
                    served >>
    /\ UNCHANGED aroundSample

\* self.db.log_security(sec_data, event_type="motion") (line 182): the record
\* is appended to the local buffer.
SampleEnqueue ==

    /\ secPc = "log_security"
    /\ enqueued' = enqueued + 1
    /\ secPc' = "timer"
    /\ UNCHANGED << motionDetected, sampleMode, buzzerTriggered, pulseMark,
                    dictMode, lastSec, secData, samples, motionCount,
                    detections, reported, summaries, sampleLogs, counted,
                    onPc, served >>
    /\ UNCHANGED aroundSample

\* timers['security_check'] = current_time (line 184)
SampleTimer ==

    /\ secPc = "timer"
    /\ secPc' = "summary"
    /\ UNCHANGED << motionDetected, sampleMode, buzzerTriggered, pulseMark,
                    dictMode, lastSec, secData, samples, motionCount,
                    detections, reported, summaries, enqueued, sampleLogs,
                    counted, onPc, served >>
    /\ UNCHANGED aroundSample

\* The summary timer has not fired (line 186): the tick goes on.
SummaryQuiet ==

    /\ secPc = "summary"
    /\ secPc' = "idle"
    /\ UNCHANGED << motionDetected, sampleMode, buzzerTriggered, pulseMark,
                    dictMode, lastSec, secData, samples, motionCount,
                    detections, reported, summaries, enqueued, sampleLogs,
                    counted, onPc, served >>
    /\ UNCHANGED aroundSample

\* The summary timer has fired: send_to_cloud publishes motion_count;
\* send_to_adafruit_io returns False when the client is not connected or the
\* publish fails (lines 187-194; MQTT_communicator.py lines 160-176).
SummaryPublish ==

    /\ secPc = "summary"
    /\ summaries < MaxSummaries
    /\ summaries' = summaries + 1
    /\ \E ok \in BOOLEAN :
          reported' = IF ok THEN reported + motionCount ELSE reported
    /\ secPc' = "reset"
    /\ UNCHANGED << motionDetected, sampleMode, buzzerTriggered, pulseMark,
                    dictMode, lastSec, secData, samples, motionCount,
                    detections, enqueued, sampleLogs, counted, onPc, served >>
    /\ UNCHANGED aroundSample

\* security_counts['motion'] = 0; timers['security_send'] = current_time
\* (lines 196-197)
SummaryReset ==

    /\ secPc = "reset"
    /\ motionCount' = 0
    /\ secPc' = "idle"
    /\ UNCHANGED << motionDetected, sampleMode, buzzerTriggered, pulseMark,
                    dictMode, lastSec, secData, samples, detections, reported,
                    summaries, enqueued, sampleLogs, counted, onPc, served >>
    /\ UNCHANGED aroundSample

\* set_mode of the MQTT thread is calling the listener _on_mode_change,
\* which has not run for this commit yet.
ListenerCalled ==
    /\ mmPc["transport"] = "callback"
    /\ invoked["transport"][Len(invoked["transport"])].listener = "on_mode_change"
    /\ served # commitOf["transport"]

\* _on_mode_change(new_mode): the mode is published on the status feed (lines
\* 274-276).
OnModePublish ==

    /\ ListenerCalled
    /\ onPc = "idle"
    /\ onPc' = "store"
    /\ UNCHANGED << secPc, motionDetected, sampleMode, buzzerTriggered,
                    pulseMark, dictMode, lastSec, secData, samples,
                    motionCount, detections, reported, summaries, enqueued,
                    sampleLogs, counted, served >>
    /\ UNCHANGED aroundSample

\* self.last_security_data['mode'] = new_mode (line 277)
OnModeStore ==

    /\ onPc = "store"
    /\ dictMode' = [dictMode EXCEPT ![lastSec] = candidate["transport"]]
    /\ onPc' = "log"
    /\ UNCHANGED << secPc, motionDetected, sampleMode, buzzerTriggered,
                    pulseMark, lastSec, secData, samples, motionCount,
                    detections, reported, summaries, enqueued, sampleLogs,
                    counted, served >>
    /\ UNCHANGED aroundSample

\* self._write_log_entry(event_type='mode_change') (line 278): "sec" is
\* the dict self.last_security_data refers to at this moment.
OnModeLogCall ==
    /\ onPc = "log"
    /\ wTag["transport"] # ModeTag
    /\ WriteCall("transport", "mode_change", lastSec, ModeTag)
    /\ UNCHANGED aroundLog

\* _write_log_entry has returned and _on_mode_change returns.
OnModeReturn ==

    /\ onPc = "log"
    /\ wTag["transport"] = ModeTag
    /\ wPc["transport"] = "idle"
    /\ served' = commitOf["transport"]
    /\ onPc' = "idle"
    /\ UNCHANGED << secPc, motionDetected, sampleMode, buzzerTriggered,
                    pulseMark, dictMode, lastSec, secData, samples,
                    motionCount, detections, reported, summaries, enqueued,
                    sampleLogs, counted >>
    /\ UNCHANGED aroundSample

\* The listener has returned to set_mode.
ListenerEnd ==
    /\ served = commitOf["transport"]
    /\ CallbackEnd("transport")

\* The steps of _write_log_entry on a day on which the file is open: the
\* date of the entry is _log_date.
WriteSameDay(t) ==
    \/ WriteAcquire(t)
    \/ EnsureCheck(t)
    \/ WriteEntry(t)
    \/ WriteRelease(t)

\* The polling thread: the security part of a tick.
SampleStep ==
    \/ SampleBegin
    \/ TimerQuiet
    \/ SampleReadMode
    \/ SamplePulseCall
    \/ PulseLookup("polling")
    \/ PulseCacheOn("polling")
    \/ PulseSetOn("polling")
    \/ PulseHold("polling")
    \/ PulseSetOff("polling")
    \/ PulseCacheOff("polling")
    \/ SamplePulseReturn
    \/ SampleReturn
    \/ SampleStore
    \/ SampleCount
    \/ SampleLogCall
    \/ WriteSameDay("polling")
    \/ SampleLogReturn
    \/ SampleEnqueue
    \/ SampleTimer
    \/ SummaryQuiet
    \/ SummaryPublish
    \/ SummaryReset

\* A mode command that asks for AWAY or NIGHT.
ValidModeCall ==
    /\ SetModeCall("transport")
    /\ Normalise(mmArg'["transport"].arg).value \in VALID_MODES \ {HOME}

\* The MQTT thread: a mode command.
ModeCommand ==
    \/ ValidModeCall
    \/ SetModeNormalise("transport")
    \/ SetModeAcquire("transport")
    \/ SetModeCommit("transport")
    \/ CallbackBegin("transport")
    \/ CallbackEnd("transport")
    \/ SetModeReturn("transport")

\* Samples of the polling thread while the MQTT thread handles mode
\* commands; cleanup() closes the outputs at shutdown.
SecurityNext ==
    \/ SampleStep
    \/ ModeCommand
    \/ Cleanup

SecuritySpec == TransportInit /\ [][SecurityNext]_vars

\* A sample without motion.
QuietSampleBegin == SampleBegin /\ ~motionDetected'

\* The MQTT thread: a mode command and the listener _on_mode_change.
ModeCommandStep ==
    \/ SetModeCall("transport")
    \/ SetModeNormalise("transport")
    \/ SetModeAcquire("transport")
    \/ SetModeCommit("transport")
    \/ CallbackBegin("transport")
    \/ OnModePublish
    \/ OnModeStore
    \/ OnModeLogCall
    \/ WriteSameDay("transport")
    \/ OnModeReturn
    \/ ListenerEnd
    \/ SetModeReturn("transport")

\* Mode commands on the MQTT thread while the polling thread takes samples
\* without motion.
ListenerNext ==
    \/ QuietSampleBegin
    \/ SampleReadMode
    \/ SampleReturn
    \/ SampleStore
    \/ SampleTimer
    \/ SummaryQuiet
    \/ ModeCommandStep

ListenerSpec == TransportInit /\ [][ListenerNext]_vars

\* C40: a sample calls pulse_buzzer, and reports buzzer_triggered true,
\* only if it detected motion and the mode it read was AWAY.
C40_BuzzerOnlyAway ==
    /\ [](buzzerTriggered => (motionDetected /\ sampleMode = AWAY))
    /\ [](pulsePc["polling"] # "idle" => (motionDetected /\ sampleMode = AWAY))
    /\ [][ pulseCalls' > pulseCalls => (motionDetected /\ sampleMode = AWAY) ]_vars

\* A sample that read AWAY and detected motion has pulsed the buzzer and
\* reports it, while the mode has changed to NIGHT meanwhile.
C40_Witness ==
    /\ secPc = "return"
    /\ buzzerTriggered
    /\ motionDetected
    /\ sampleMode = AWAY
    /\ mode = NIGHT
    /\ pulseResult["polling"] = "returned"

\* The polling thread is in a sample that detected motion and whose
\* effects are not complete.
MotionInProgress ==
    /\ motionDetected
    /\ secPc \in {"read_mode", "pulse", "return", "store", "count", "write_log",
                  "log_security"}

AllReported == counted = reported + motionCount

\* C33 as claimed: a summary publishes the motion count accumulated since
\* the previous summary and leaves the counter at zero, so that every
\* detection is reported in exactly one published summary.
C33_ReportedOnce ==
    /\ [][ (secPc = "reset" /\ secPc' = "idle") => motionCount' = 0 ]_vars
    /\ [](secPc # "reset" => AllReported)

\* _on_mode_change has returned to the set_mode call that committed the
\* mode change.
ModeChangeLogged ==
    /\ mmPc["transport"] = "callback"
    /\ served = commitOf["transport"]
    /\ lastEntry["transport"].event = "mode_change"

\* C39 as claimed: the entry written for a committed mode change records
\* the new mode.
C39_EntryHasNewMode ==
    ModeChangeLogged => lastEntry["transport"].mode = candidate["transport"]

(***************************************************************************)
(* data_collection_loop with its periodic flush of the log (lines 385-407).*)
(* Time passes in the loop's time.sleep(1); the other statements take no   *)
(* time.                                                                   *)
(***************************************************************************)
loopFrame == << lifePc, appRunning, connected, ticks >>

aroundLoop == << dbVars, sampleVars, modeVars, deviceVars, pulseVars, partyVars,
                routeVars >>

\* The call of _write_log_entry of the tick in progress.
TickTag == << "tick", 0 >>

\* "while self.running:" (line 385)
TickBegin ==
    /\ loopPc = "while"
    /\ loopPc' = IF appRunning THEN "collect" ELSE "finally"
    /\ UNCHANGED << logOpen, logVars >>
    /\ UNCHANGED loopFrame
    /\ UNCHANGED aroundLoop

\* A collector of the tick writes a log entry (lines 388-389).
TickLogCall ==
    /\ loopPc = "collect"
    /\ wTag["polling"] # TickTag
    /\ written + InFlight < MaxEntries
    /\ WriteCall("polling", "environmental", lastSec, TickTag)
    /\ UNCHANGED aroundLog

\* The collectors have returned.
TickCollected ==
    /\ loopPc = "collect"
    /\ wPc["polling"] = "idle"
    /\ wTag' = [wTag EXCEPT !["polling"] = NoTag]
    /\ loopPc' = "flush"
    /\ UNCHANGED << logLock, wPc, wStamp, wSec, wEvent, lastEntry, written >>
    /\ UNCHANGED handleVars
    /\ UNCHANGED timeVars
    /\ UNCHANGED logOpen
    /\ UNCHANGED loopFrame
    /\ UNCHANGED aroundLoop

\* Variant: the flush interval never counts as elapsed.
FlushNeverDue(since) == FALSE

\* current_time - self._last_flush_time >= self.flush_interval (line 392)
FlushDue(since) == since >= FlushInterval

\* "if self._needs_flush and ...: self._flush_log();
\* self._last_flush_time = current_time" (lines 392-394). _flush_log takes
\* the lock, returns if there is no handle, and otherwise flushes, syncs
\* and clears _needs_flush.
TickFlush ==
    /\ loopPc = "flush"
    /\ IF needsFlush /\ FlushDue(sinceFlush)
       THEN /\ logLock = "free"
            /\ IF logHandle # "none"
               THEN needsFlush' = FALSE /\ pendingAge' = Durable
               ELSE UNCHANGED << needsFlush, pendingAge >>
            /\ sinceFlush' = 0
       ELSE UNCHANGED << needsFlush, pendingAge, sinceFlush >>
    /\ loopPc' = "sleep"
    /\ UNCHANGED << logLock, logHandle, logFile, logDate, opened, today >>
    /\ UNCHANGED writerVars
    /\ UNCHANGED logOpen
    /\ UNCHANGED loopFrame
    /\ UNCHANGED aroundLoop

\* time.sleep(1) (line 396): one tick of time passes.
TickSleep ==
    /\ loopPc = "sleep"
    /\ sinceFlush' = Min(sinceFlush + 1, FlushInterval)
    /\ pendingAge' = IF pendingAge = Durable THEN Durable ELSE Min(pendingAge + 1, MaxAge)
    /\ loopPc' = "while"
    /\ UNCHANGED << logLock, logHandle, logFile, logDate, opened, needsFlush, today >>
    /\ UNCHANGED writerVars
    /\ UNCHANGED logOpen
    /\ UNCHANGED loopFrame
    /\ UNCHANGED aroundLoop

\* The finally block of the loop (lines 400-407): under the lock, the
\* handle is flushed, synced, closed and set to None.
FinalFlush ==
    /\ loopPc = "finally"
    /\ logLock = "free"
    /\ IF logHandle # "none"
       THEN /\ logHandle' = "none"
            /\ logFile' = 0
            /\ opened' = IF logHandle = "open" THEN opened - 1 ELSE opened
            /\ needsFlush' = FALSE
            /\ pendingAge' = Durable
       ELSE UNCHANGED << logHandle, logFile, opened, needsFlush, pendingAge >>
    /\ logOpen' = FALSE
    /\ loopPc' = "done"
    /\ UNCHANGED << logLock, logDate, today, sinceFlush >>
    /\ UNCHANGED writerVars
    /\ UNCHANGED loopFrame
    /\ UNCHANGED aroundLoop

\* The steps of the JeefHSLoop thread, once started, but the calls of its
\* collectors.
LoopStep ==
    \/ TickBegin
    \/ TickCollected
    \/ TickFlush
    \/ TickSleep
    \/ FinalFlush

FlushNext ==
    \/ AppStart
    \/ Interrupt
    \/ StopRunning
    \/ LoopStep
    \/ TickLogCall
    \/ LogEvent("transport")
    \/ \E t \in LogThreads : WriteStep(t)
    \/ Midnight

FlushSpec == ModeInit /\ [][FlushNext]_vars

\* start() is called, and the operating system keeps scheduling the
\* polling thread and a thread that is inside _write_log_entry.
FlushFairSpec ==
    /\ FlushSpec
    /\ WF_vars(AppStart)
    /\ WF_vars(LoopStep)
    /\ \A t \in LogThreads : WF_vars(WriteStep(t))

\* The periodic flush of the loop runs in this step.
PeriodicFlush == loopPc = "flush" /\ loopPc' = "sleep" /\ sinceFlush' # sinceFlush

MaxCommands == 2

PartyTag == << "party", partyCmds >>

\* self._write_log_entry(event_type='party_mode_on') and
\* self._write_log_entry(event_type='party_mode_off') are called inside
\* "with self._party_lock" (lines 350 and 358).
PartyLogCall ==
    /\ partyPc \in {"start_log", "stop_log"}
    /\ wTag["transport"] # PartyTag
    /\ WriteCall("transport",
                 IF partyPc = "start_log" THEN "party_mode_on"
                                          ELSE "party_mode_off",
                 lastSec, PartyTag)
    /\ UNCHANGED aroundLog

\* _write_log_entry has returned to _start_party_mode, which leaves the
\* with block.
StartLogged ==
    /\ wTag["transport"] = PartyTag
    /\ wPc["transport"] = "idle"
    /\ StartLog

\* _write_log_entry has returned to _stop_party_mode, which leaves the with
\* block.
StopLogged ==
    /\ wTag["transport"] = PartyTag
    /\ wPc["transport"] = "idle"
    /\ StopLog

\* The MQTT thread handles one message at a time: a party command arrives
\* when no mode command is being handled, and the other way round.
Handled == partyCmds + mmCalls

PartyOnCommand ==
    /\ mmPc["transport"] = "idle"
    /\ Handled < MaxCommands
    /\ StartCall

PartyOffCommand ==
    /\ mmPc["transport"] = "idle"
    /\ Handled < MaxCommands
    /\ StopCall

ModeCommandCall ==
    /\ partyPc = "idle"
    /\ Handled < MaxCommands
    /\ ValidModeCall

\* The polling thread writes the entry of an environment sample, and calls
\* get_mode() for a security sample when that is written.
PollingLog == LogEvent("polling")

PollingGetMode == wPc["polling"] = "idle" /\ GetMode("polling")

\* The MQTT thread goes on with the command it is handling.
TransportRuns ==
    \/ StartAcquire
    \/ StartAlive
    \/ StartStates
    \/ StartClear
    \/ StartSpawn
    \/ PartyLogCall
    \/ StartLogged
    \/ StopAcquire
    \/ StopAlive
    \/ StopSet
    \/ StopJoin
    \/ StopLogged
    \/ SetModeNormalise("transport")
    \/ SetModeAcquire("transport")
    \/ SetModeCommit("transport")
    \/ CallbackBegin("transport")
    \/ OnModePublish
    \/ OnModeStore
    \/ OnModeLogCall
    \/ WriteSameDay("transport")
    \/ OnModeReturn
    \/ ListenerEnd
    \/ SetModeReturn("transport")

\* The PartyMode thread, which takes none of the locks, from the moment the
\* stop event is set: it leaves the while loop and switches the LEDs off in
\* its finally block, so that is_alive() and join() of the MQTT thread find
\* it running or ended.
PartyRuns ==
    /\ stopEvent
    /\ \/ WorkerWhile
       \/ WorkerFinally
       \/ WorkerFinalised
       \/ SetDeviceCheck("party")
       \/ SetDeviceCompare("party")

\* The polling thread goes on with its tick.
PollingRuns ==
    \/ PollingGetMode
    \/ WriteSameDay("polling")

LockNext ==
    \/ PartyOnCommand
    \/ PartyOffCommand
    \/ ModeCommandCall
    \/ TransportRuns
    \/ PollingLog
    \/ PollingRuns
    \/ PartyRuns

LockSpec == TransportInit /\ [][LockNext]_vars

\* The scheduler runs every thread that can take a step.
LockFairSpec ==
    /\ TransportInit
    /\ [][LockNext]_vars
    /\ WF_vars(TransportRuns)
    /\ WF_vars(PollingRuns)
    /\ WF_vars(PartyRuns)

LockNames == {"party", "log", "mode"}

\* The thread that holds a lock, or "free".
Owner(l) == IF l = "party" THEN partyLock
            ELSE IF l = "log" THEN logLock
            ELSE lock

\* The lock thread t is about to take, or "none".
WaitsFor(t) ==
    IF t = "transport" /\ partyPc \in {"start_lock", "stop_lock"} THEN "party"
    ELSE IF wPc[t] = "acquire" THEN "log"
    ELSE IF mmPc[t] = "acquire" THEN "mode"
    ELSE "none"

\* The position of a lock in the order party, log, mode.
Rank(l) == IF l = "party" THEN 1 ELSE IF l = "log" THEN 2 ELSE 3

\* A thread takes a lock only after the locks it holds.
LockOrder ==
    \A t \in LogThreads : \A l \in LockNames :
        (Owner(l) = t /\ WaitsFor(t) # "none") => Rank(l) < Rank(WaitsFor(t))

\* No two threads wait for a lock the other one holds.
NoWaitCycle ==
    \A t \in LogThreads : \A u \in LogThreads :
        ~ /\ WaitsFor(t) # "none"
          /\ WaitsFor(u) # "none"
          /\ Owner(WaitsFor(t)) = u
          /\ Owner(WaitsFor(u)) = t

ListenersUnlocked == \A t \in ModeThreads : InListener(t) => lock # t

\* C35: the polling thread, the MQTT thread and the PartyMode thread never
\* deadlock: a thread takes the party lock before the log lock and the log
\* lock before the mode lock, no thread waits for a lock held by a thread
\* that waits for it, the mode lock is not held while a listener runs, and
\* every lock that is taken is released.
C35_NoDeadlock ==
    /\ [](LockOrder /\ NoWaitCycle /\ ListenersUnlocked)
    /\ \A l \in LockNames : (Owner(l) # "free") ~> (Owner(l) = "free")

\* The MQTT thread holds the party lock and waits for the log lock, which
\* the polling thread holds.
C35_Witness ==
    /\ partyLock = "transport"
    /\ WaitsFor("transport") = "log"
    /\ logLock = "polling"

====
